---- MODULE Spec2Model ----
(***************************************************************************)
(* SpanishVIP teacher screening bot (src/src/index.ts): the conversation   *)
(* state machine of one chat, its KV-backed session and its sliding-window *)
(* rate limiter.  The file holds two variants of the worker: the           *)
(* 5-question one (lines 1-725, "v5") and the 8-question one (lines        *)
(* 727-1541, "v8").                                                        *)
(*                                                                         *)
(* JavaScript strings that the code parses or compares are tuples of       *)
(* one-character strings, so that trim, split, indexOf, slice and parseInt *)
(* are computed as the code computes them.                                 *)
(***************************************************************************)
EXTENDS Integers, Sequences, FiniteSets, TLC

VARIABLES
    variant,    \* which worker is deployed: "v5" or "v8"
    env,        \* env.MIN_WEEKLY_HOURS: Undefined or Str(text)
    clock,      \* Date.now(), in ms
    rl,         \* KV entry "rl:<chatId>": NoEntry or [value, expiresAt]
    session,    \* KV entry "<chatId>": Null or the stored SessionState
    out,        \* I/O calls made by the last handler, in program order
    verdicts,   \* result-delivery calls issued since the session was created
    ret,        \* return value of the last direct checkRateLimit call
    admitted,   \* times of the checkRateLimit calls that returned true
    fnIn,       \* arguments of a checkFailCondition evaluation
    fnOut,      \* its result
    procs       \* the handler invocations in progress: position, snapshots, calls to make

vars == <<variant, env, clock, rl, session, out, verdicts, ret, admitted, fnIn, fnOut, procs>>

----------------------------------------------------------------------------
(* Bounds of the model *)

\* clock ticks the handlers' specification may take
MaxTicks == 1
\* clock ticks the rate limiter's specification may take
MaxTicksRL == 3
\* lapses of a whole key TTL the rate limiter's specification may take
MaxLapses == 1
\* calls that fail in one execution of a handler
MaxFaults == 1
\* updates delivered while invocations interleave
MaxUpdates == 3
\* checkRateLimit calls admitted while calls interleave
MaxCalls == 6

----------------------------------------------------------------------------
(* Program constants *)

RATE_LIMIT_TTL_SECONDS == 60
RATE_LIMIT_WINDOW_MS == 10000
RATE_LIMIT_MAX_ACTIONS == 5
DEFAULT_MIN_WEEKLY_HOURS == 15
MIN_TOKEN_LENGTH == 4
MIN_AGE == 10
MAX_AGE == 80
MAX_AGE_THRESHOLD == 35

\* granularity of the clock between two updates: one rate-limit window
Tick == RATE_LIMIT_WINDOW_MS
\* granularity of the clock between two checkRateLimit calls: half a window
TickRL == RATE_LIMIT_WINDOW_MS \div 2

----------------------------------------------------------------------------
(* JavaScript values *)

Null == [null |-> TRUE]
Undefined == [undefined |-> TRUE]
NoEntry == [absent |-> TRUE]
NaN == [nan |-> TRUE, val |-> 0]
Num(n) == [nan |-> FALSE, val |-> n]
\* an answer value: a string, a number, or a function object
Str(s) == [t |-> "string", v |-> s]
Number(n) == [t |-> "number", v |-> n]
JsFunction == [t |-> "function", v |-> <<>>]
EmptyAnswers == [k \in {} |-> Null]

IsSpace(c) == c = " "

RECURSIVE TrimStart(_)
TrimStart(s) ==
    IF s # <<>> /\ IsSpace(Head(s)) THEN TrimStart(Tail(s)) ELSE s

RECURSIVE TrimEnd(_)
TrimEnd(s) ==
    IF s # <<>> /\ IsSpace(s[Len(s)]) THEN TrimEnd(SubSeq(s, 1, Len(s) - 1)) ELSE s

\* String.prototype.trim
Trim(s) == TrimEnd(TrimStart(s))

\* String.prototype.startsWith
StartsWith(s, p) == Len(s) >= Len(p) /\ SubSeq(s, 1, Len(p)) = p

\* String.prototype.indexOf for a one-character needle: 0-based, -1 when absent
IndexOf(s, c) ==
    LET hits == {i \in 1..Len(s) : s[i] = c}
    IN  IF hits = {} THEN -1 ELSE (CHOOSE i \in hits : \A j \in hits : i <= j) - 1

\* String.prototype.slice(from, to) with 0 <= from <= to <= length
Slice(s, from, to) == SubSeq(s, from + 1, to)

\* String.prototype.split(/\s+/)
RECURSIVE SplitWs(_)
SplitWs(s) ==
    LET ws == {i \in 1..Len(s) : IsSpace(s[i])}
    IN  IF ws = {} THEN <<s>>
        ELSE LET i == CHOOSE k \in ws : \A j \in ws : k <= j
             IN  <<SubSeq(s, 1, i - 1)>> \o SplitWs(TrimStart(SubSeq(s, i, Len(s))))

Digits == {"0", "1", "2", "3", "4", "5", "6", "7", "8", "9"}

DigitVal(c) ==
    CASE c = "0" -> 0 [] c = "1" -> 1 [] c = "2" -> 2 [] c = "3" -> 3 [] c = "4" -> 4
      [] c = "5" -> 5 [] c = "6" -> 6 [] c = "7" -> 7 [] c = "8" -> 8 [] c = "9" -> 9

RECURSIVE ParseDigits(_, _)
ParseDigits(s, acc) ==
    IF s # <<>> /\ Head(s) \in Digits
    THEN ParseDigits(Tail(s), 10 * acc + DigitVal(Head(s)))
    ELSE acc

\* parseInt(s, 10): leading white space skipped, an optional sign, the longest
\* prefix of decimal digits; NaN when there is no digit
ParseInt(s) ==
    LET t == TrimStart(s)
        neg == t # <<>> /\ Head(t) = "-"
        u == IF t # <<>> /\ Head(t) \in {"-", "+"} THEN Tail(t) ELSE t
    IN  IF u = <<>> \/ Head(u) \notin Digits THEN NaN
        ELSE Num(IF neg THEN 0 - ParseDigits(u, 0) ELSE ParseDigits(u, 0))

\* JSON.parse(JSON.stringify(answers)): properties holding a function are dropped
JsonAnswers(a) ==
    [k \in {x \in DOMAIN a : a[x].t # "function"} |-> a[k]]

\* JSON.parse(JSON.stringify(state)) of a SessionState
JsonSession(s) == [s EXCEPT !.answers = JsonAnswers(s.answers)]

----------------------------------------------------------------------------
(* Rate limiting: per-chat sliding window stored in KV *)

\* KVNamespace.get: a key past its expiration reads as absent
KVGet(entry, now) ==
    IF entry = NoEntry THEN Null
    ELSE IF now >= entry.expiresAt THEN Null
    ELSE entry.value

\* KVNamespace.put with expirationTtl (seconds)
KVPut(value, ttlSeconds, now) ==
    [value |-> value, expiresAt |-> now + 1000 * ttlSeconds]

\* a stored text that JSON.parse rejects
Unparseable == [unparseable |-> TRUE]
\* a stored text that parses to an object without a timestamps property
ObjectWithoutList == [version |-> 1]

\* try { state = JSON.parse(raw) } catch { state = { timestamps: [] } }
JsonParseOrEmpty(raw) == IF raw = Unparseable THEN [timestamps |-> <<>>] ELSE raw

\* state.timestamps is an array; when it is undefined, state.timestamps.filter
\* throws a TypeError that checkRateLimit does not catch
HasTimestamps(state) == "timestamps" \in DOMAIN state

\* checkRateLimit ended by that exception: nothing returned, nothing written
TypeError == [allowed |-> FALSE, threw |-> TRUE, ops |-> <<>>]

\* checkRateLimit with >= weakened to >
CheckRateLimitOffByOne(entry, now) ==
    LET raw == KVGet(entry, now)
        state == IF raw = Null THEN [timestamps |-> <<>>] ELSE JsonParseOrEmpty(raw)
        recent == IF HasTimestamps(state)
                  THEN SelectSeq(state.timestamps, LAMBDA t : now - t < RATE_LIMIT_WINDOW_MS)
                  ELSE <<>>
    IN  IF ~HasTimestamps(state) THEN TypeError
        ELSE IF Len(recent) > RATE_LIMIT_MAX_ACTIONS
        THEN [allowed |-> FALSE, threw |-> FALSE, ops |-> <<>>]
        ELSE [allowed |-> TRUE, threw |-> FALSE,
              ops |-> <<[op |-> "rlput", value |-> [timestamps |-> Append(recent, now)],
                         ttl |-> RATE_LIMIT_TTL_SECONDS]>>]

\* checkRateLimit that stores the pruned window before rejecting
CheckRateLimitWriteOnReject(entry, now) ==
    LET raw == KVGet(entry, now)
        state == IF raw = Null THEN [timestamps |-> <<>>] ELSE JsonParseOrEmpty(raw)
        recent == IF HasTimestamps(state)
                  THEN SelectSeq(state.timestamps, LAMBDA t : now - t < RATE_LIMIT_WINDOW_MS)
                  ELSE <<>>
    IN  IF ~HasTimestamps(state) THEN TypeError
        ELSE IF Len(recent) >= RATE_LIMIT_MAX_ACTIONS
        THEN [allowed |-> FALSE, threw |-> FALSE,
              ops |-> <<[op |-> "rlput", value |-> [timestamps |-> recent],
                         ttl |-> RATE_LIMIT_TTL_SECONDS]>>]
        ELSE [allowed |-> TRUE, threw |-> FALSE,
              ops |-> <<[op |-> "rlput", value |-> [timestamps |-> Append(recent, now)],
                         ttl |-> RATE_LIMIT_TTL_SECONDS]>>]

\* checkRateLimit that stores the whole list it read, not the pruned one
CheckRateLimitKeepsAll(entry, now) ==
    LET raw == KVGet(entry, now)
        state == IF raw = Null THEN [timestamps |-> <<>>] ELSE JsonParseOrEmpty(raw)
        recent == IF HasTimestamps(state)
                  THEN SelectSeq(state.timestamps, LAMBDA t : now - t < RATE_LIMIT_WINDOW_MS)
                  ELSE <<>>
    IN  IF ~HasTimestamps(state) THEN TypeError
        ELSE IF Len(recent) >= RATE_LIMIT_MAX_ACTIONS
        THEN [allowed |-> FALSE, threw |-> FALSE, ops |-> <<>>]
        ELSE [allowed |-> TRUE, threw |-> FALSE,
              ops |-> <<[op |-> "rlput", value |-> [timestamps |-> Append(state.timestamps, now)],
                         ttl |-> RATE_LIMIT_TTL_SECONDS]>>]

\* checkRateLimit(chatId, env): the value it returns and the KV write it makes
CheckRateLimit(entry, now) ==
    LET raw == KVGet(entry, now)
        state == IF raw = Null THEN [timestamps |-> <<>>] ELSE JsonParseOrEmpty(raw)
        recent == IF HasTimestamps(state)
                  THEN SelectSeq(state.timestamps, LAMBDA t : now - t < RATE_LIMIT_WINDOW_MS)
                  ELSE <<>>
    IN  IF ~HasTimestamps(state) THEN TypeError
        ELSE IF Len(recent) >= RATE_LIMIT_MAX_ACTIONS
        THEN [allowed |-> FALSE, threw |-> FALSE, ops |-> <<>>]
        ELSE [allowed |-> TRUE, threw |-> FALSE,
              ops |-> <<[op |-> "rlput", value |-> [timestamps |-> Append(recent, now)],
                         ttl |-> RATE_LIMIT_TTL_SECONDS]>>]

----------------------------------------------------------------------------
(* String literals of the code *)

s_start == <<"/", "s", "t", "a", "r", "t">>
s_restart == <<"/", "r", "e", "s", "t", "a", "r", "t">>
s_help == <<"/", "h", "e", "l", "p">>
s_15 == <<"1", "5">>
s_yes == <<"y", "e", "s">>
s_no == <<"n", "o">>
s_low == <<"l", "o", "w">>
s_full_time == <<"f", "u", "l", "l", "_", "t", "i", "m", "e">>
s_part_time == <<"p", "a", "r", "t", "_", "t", "i", "m", "e">>
s_less_than_15 == <<"l", "e", "s", "s", "_", "t", "h", "a", "n", "_", "1", "5">>
s_constructor == <<"c", "o", "n", "s", "t", "r", "u", "c", "t", "o", "r">>
s_toString == <<"t", "o", "S", "t", "r", "i", "n", "g">>

\* keys every object literal inherits from Object.prototype (two of them); a
\* lookup obj[key] with such a key yields a function object, not undefined
ObjectPrototypeKeys == {s_constructor, s_toString}

----------------------------------------------------------------------------
(* Question catalog *)

STEP_ORDER5 == <<"q1_team_role", "q2_weekly_hours", "q3_start_date", "q4_setup", "q5_sop">>

STEP_ORDER8 ==
    <<"q1_team_role", "q2_weekly_hours", "q3_start_date", "q4_setup", "q5_sop",
      "q6_english", "q7_age", "q8_student_types">>

\* QUESTIONS[i].key
QUESTION_KEYS5 == <<"team_role", "weekly_availability", "start_date", "setup", "sop">>

QUESTION_KEYS8 ==
    <<"team_role", "weekly_availability", "start_date", "setup", "sop",
      "english_level", "age", "student_types">>

STEP_PREFIX5(step) ==
    CASE step = "q1_team_role" -> <<"q", "1">>
      [] step = "q2_weekly_hours" -> <<"q", "2">>
      [] step = "q3_start_date" -> <<"q", "3">>
      [] step = "q4_setup" -> <<"q", "4">>
      [] step = "q5_sop" -> <<"q", "5">>
      [] step = "completed" -> <<>>

STEP_PREFIX8(step) ==
    CASE step = "q1_team_role" -> <<"Q", "1">>
      [] step = "q2_weekly_hours" -> <<"Q", "2">>
      [] step = "q3_start_date" -> <<"Q", "3">>
      [] step = "q4_setup" -> <<"Q", "4">>
      [] step = "q5_sop" -> <<"Q", "5">>
      [] step = "q6_english" -> <<"Q", "6">>
      [] step = "q7_age" -> <<"Q", "7">>
      [] step = "q8_student_types" -> <<"Q", "8">>
      [] step = "completed" -> <<>>

\* CALLBACK_VALUE_MAP[prefix]: the own properties of the inner object literal as
\* a function from suffix to canonical value, Undefined for a missing prefix
CALLBACK_VALUE_MAP(prefix) ==
    CASE prefix = <<"Q", "1">> -> (<<"Y", "E", "S">> :> s_yes) @@ (<<"N", "O">> :> s_no)
      [] prefix = <<"Q", "2">> -> (<<"F", "T">> :> s_full_time) @@ (<<"P", "T">> :> s_part_time) @@ (<<"L", "O", "W">> :> s_low)
      [] prefix = <<"Q", "3">> -> (<<"N", "O", "W">> :> <<"n", "o", "w">>) @@ (<<"S", "O", "O", "N">> :> <<"s", "o", "o", "n">>) @@ (<<"L", "A", "T", "E", "R">> :> <<"l", "a", "t", "e", "r">>)
      [] prefix = <<"Q", "4">> -> (<<"Y", "E", "S">> :> s_yes) @@ (<<"N", "O">> :> s_no)
      [] prefix = <<"Q", "5">> -> (<<"Y", "E", "S">> :> s_yes) @@ (<<"N", "O">> :> s_no)
      [] prefix = <<"Q", "6">> -> (<<"G", "O", "O", "D">> :> <<"g", "o", "o", "d">>) @@ (<<"O", "K">> :> <<"o", "k">>) @@ (<<"L", "O", "W">> :> s_low)
      [] prefix = <<"Q", "8">> -> (<<"K", "I", "D", "S">> :> <<"k", "i", "d", "s">>) @@ (<<"T", "E", "E", "N", "S">> :> <<"t", "e", "e", "n", "s">>)
                          @@ (<<"A", "D", "U", "L", "T", "S">> :> <<"a", "d", "u", "l", "t", "s">>) @@ (<<"A", "L", "L">> :> <<"a", "l", "l">>)
      [] OTHER -> Undefined

\* prefixMap[callbackSuffix]: an own property, else an inherited one, else undefined
CallbackValue(prefixMap, suffix) ==
    IF suffix \in DOMAIN prefixMap THEN Str(prefixMap[suffix])
    ELSE IF suffix \in ObjectPrototypeKeys THEN JsFunction
    ELSE Undefined

\* HOURS_MAP[answer] ?? 0 of the 5-question worker; an inherited property is
\* not nullish and is no number
Hours5(answer) ==
    IF answer.t # "string" THEN Num(0)
    ELSE CASE answer.v = s_full_time -> Num(30)
           [] answer.v = s_part_time -> Num(20)
           [] answer.v = s_less_than_15 -> Num(0)
           [] answer.v \in ObjectPrototypeKeys -> NaN
           [] OTHER -> Num(0)

\* HOURS_MAP[answer] ?? 0 of the 8-question worker
Hours8(answer) ==
    IF answer.t # "string" THEN Num(0)
    ELSE CASE answer.v = s_full_time -> Num(30)
           [] answer.v = s_part_time -> Num(20)
           [] answer.v = s_low -> Num(0)
           [] answer.v \in ObjectPrototypeKeys -> NaN
           [] OTHER -> Num(0)

\* parseInt(env.MIN_WEEKLY_HOURS ?? "15", 10) || 15
MinWeeklyHours(e) ==
    LET parsed == ParseInt(IF e = Undefined THEN s_15 ELSE e.v)
    IN  IF parsed.nan \/ parsed.val = 0 THEN DEFAULT_MIN_WEEKLY_HOURS ELSE parsed.val

\* the null that checkFailCondition returns when the answer passes
NoFail == "null"

\* checkFailCondition of the 5-question worker; the reason is named by its step
checkFailCondition5(step, answer, minWeeklyHours) ==
    CASE step = "q1_team_role" ->
           IF answer = Str(s_no) THEN "fail_team_role" ELSE NoFail
      [] step = "q2_weekly_hours" ->
           LET hours == Hours5(answer)
           IN  IF ~hours.nan /\ hours.val < minWeeklyHours
               THEN "fail_weekly_hours" ELSE NoFail
      [] step = "q4_setup" ->
           IF answer = Str(s_no) THEN "fail_setup" ELSE NoFail
      [] step = "q5_sop" ->
           IF answer = Str(s_no) THEN "fail_sop" ELSE NoFail
      [] OTHER -> NoFail

\* checkFailCondition8 with the availability comparison turned into <=
checkFailCondition8Strict(step, answer, minWeeklyHours) ==
    CASE step = "q1_team_role" ->
           IF answer = Str(s_no) THEN "fail_team_role" ELSE NoFail
      [] step = "q2_weekly_hours" ->
           LET hours == Hours8(answer)
           IN  IF ~hours.nan /\ hours.val <= minWeeklyHours
               THEN "fail_weekly_hours" ELSE NoFail
      [] step = "q4_setup" ->
           IF answer = Str(s_no) THEN "fail_setup" ELSE NoFail
      [] step = "q5_sop" ->
           IF answer = Str(s_no) THEN "fail_sop" ELSE NoFail
      [] step = "q6_english" ->
           IF answer = Str(s_low) THEN "fail_english" ELSE NoFail
      [] OTHER -> NoFail

\* checkFailCondition of the 8-question worker
checkFailCondition8(step, answer, minWeeklyHours) ==
    CASE step = "q1_team_role" ->
           IF answer = Str(s_no) THEN "fail_team_role" ELSE NoFail
      [] step = "q2_weekly_hours" ->
           LET hours == Hours8(answer)
           IN  IF ~hours.nan /\ hours.val < minWeeklyHours
               THEN "fail_weekly_hours" ELSE NoFail
      [] step = "q4_setup" ->
           IF answer = Str(s_no) THEN "fail_setup" ELSE NoFail
      [] step = "q5_sop" ->
           IF answer = Str(s_no) THEN "fail_sop" ELSE NoFail
      [] step = "q6_english" ->
           IF answer = Str(s_low) THEN "fail_english" ELSE NoFail
      [] OTHER -> NoFail

\* STEP_ORDER.indexOf(step), 0-based, -1 when absent
StepIndex(order, step) ==
    IF \E i \in 1..Len(order) : order[i] = step
    THEN (CHOOSE i \in 1..Len(order) : order[i] = step) - 1
    ELSE -1

\* STEP_ORDER[index] read one place too far
StepAtSkips(order, index) ==
    IF index + 2 <= Len(order) THEN order[index + 2] ELSE order[Len(order)]

\* STEP_ORDER[index], 0-based
StepAt(order, index) == order[index + 1]

----------------------------------------------------------------------------
(* I/O calls of a handler, in program order *)

Ack == [op |-> "ack"]
Send(msg) == [op |-> "send", msg |-> msg]
SendQuestion(questionIndex) == [op |-> "send", msg |-> "question", q |-> questionIndex]
\* saveSession: the stored text is JSON.stringify(state)
SaveSession(state) == [op |-> "put", value |-> JsonSession(state)]
DeleteSession == [op |-> "delete"]
\* the fire-and-forget POST of JSON.stringify(payload) to the result webhook
Dispatch(payload) ==
    [op |-> "dispatch", payload |-> [payload EXCEPT !.answers = JsonAnswers(payload.answers)]]

\* reportResult that posts the result again after a first attempt
reportResultTwice(result, reason, state) ==
    << Dispatch([applicant_token |-> state.applicant_token, result |-> result,
                 reason |-> reason, answers |-> state.answers]),
       Dispatch([applicant_token |-> state.applicant_token, result |-> result,
                 reason |-> reason, answers |-> state.answers]),
       Send(IF result = "pass" THEN "verdict_pass" ELSE "verdict_fail"),
       SaveSession([state EXCEPT !.step = "completed"]),
       DeleteSession >>

\* reportResult that marks the session completed but never deletes it
reportResultNoDelete(result, reason, state) ==
    << Dispatch([applicant_token |-> state.applicant_token, result |-> result,
                 reason |-> reason, answers |-> state.answers]),
       Send(IF result = "pass" THEN "verdict_pass" ELSE "verdict_fail"),
       SaveSession([state EXCEPT !.step = "completed"]) >>

\* reportResult that deletes the session before it marks it completed
reportResultDeleteFirst(result, reason, state) ==
    << Dispatch([applicant_token |-> state.applicant_token, result |-> result,
                 reason |-> reason, answers |-> state.answers]),
       Send(IF result = "pass" THEN "verdict_pass" ELSE "verdict_fail"),
       DeleteSession,
       SaveSession([state EXCEPT !.step = "completed"]) >>

\* reportResult that awaits the webhook POST, a rejection ending the handler
reportResultAwaitsDelivery(result, reason, state) ==
    << [op |-> "dispatch", awaited |-> TRUE,
        payload |-> [applicant_token |-> state.applicant_token, result |-> result,
                     reason |-> reason, answers |-> JsonAnswers(state.answers)]],
       Send(IF result = "pass" THEN "verdict_pass" ELSE "verdict_fail"),
       SaveSession([state EXCEPT !.step = "completed"]),
       DeleteSession >>

\* reportResult(result, reason, state, ...): webhook POST, verdict message, mark
\* completed, delete
reportResult(result, reason, state) ==
    << Dispatch([applicant_token |-> state.applicant_token, result |-> result,
                 reason |-> reason, answers |-> state.answers]),
       Send(IF result = "pass" THEN "verdict_pass" ELSE "verdict_fail"),
       SaveSession([state EXCEPT !.step = "completed"]),
       DeleteSession >>

NewSession(token, firstStep) ==
    [applicant_token |-> Trim(token), step |-> firstStep, answers |-> EmptyAnswers]

\* handleStart of the 5-question worker
handleStart5(token) ==
    IF token = <<>> \/ Len(Trim(token)) < MIN_TOKEN_LENGTH
    THEN <<Send("invalid_token")>>
    ELSE <<SaveSession(NewSession(token, "q1_team_role")), Send("welcome"), SendQuestion(0)>>

\* handleStart8 without the token length check
handleStart8NoCheck(token) ==
    <<SaveSession(NewSession(token, "q1_team_role")), SendQuestion(0)>>

\* handleStart8 that saves the session but does not send the first question
handleStart8NoQuestion(token) ==
    IF token = <<>> \/ Len(Trim(token)) < MIN_TOKEN_LENGTH
    THEN <<Send("invalid_token")>>
    ELSE <<SaveSession(NewSession(token, "q1_team_role"))>>

\* handleStart of the 8-question worker
handleStart8(token) ==
    IF token = <<>> \/ Len(Trim(token)) < MIN_TOKEN_LENGTH
    THEN <<Send("invalid_token")>>
    ELSE <<SaveSession(NewSession(token, "q1_team_role")), SendQuestion(0)>>

\* handleMessage of the 5-question worker that drops the session when it
\* receives free text
handleMessage5FreeTextResets(sess, entry, now, text) ==
    LET limit == CheckRateLimit(entry, now)
        trimmed == Trim(text)
        parts == SplitWs(trimmed)
        token == IF Len(parts) >= 2 THEN parts[2] ELSE <<>>
    IN  IF limit.threw THEN <<>>
        ELSE IF ~limit.allowed THEN <<Send("too_fast")>>
        ELSE limit.ops \o
             (IF StartsWith(trimmed, s_start)
              THEN IF token = <<>> THEN <<Send("no_token")>> ELSE handleStart5(token)
              ELSE IF StartsWith(trimmed, s_restart)
              THEN IF sess # Null /\ sess.applicant_token # <<>>
                   THEN handleStart5(sess.applicant_token)
                   ELSE <<Send("no_active_session")>>
              ELSE IF StartsWith(trimmed, s_help) THEN <<Send("help")>>
              ELSE IF sess # Null /\ sess.step # "completed"
              THEN <<DeleteSession, Send("use_buttons")>>
              ELSE <<Send("start_prompt")>>)

\* handleMessage of the 5-question worker
handleMessage5(sess, entry, now, text) ==
    LET limit == CheckRateLimit(entry, now)
        trimmed == Trim(text)
        parts == SplitWs(trimmed)
        token == IF Len(parts) >= 2 THEN parts[2] ELSE <<>>
    IN  IF limit.threw THEN <<>>
        ELSE IF ~limit.allowed THEN <<Send("too_fast")>>
        ELSE limit.ops \o
             (IF StartsWith(trimmed, s_start)
              THEN IF token = <<>> THEN <<Send("no_token")>> ELSE handleStart5(token)
              ELSE IF StartsWith(trimmed, s_restart)
              THEN IF sess # Null /\ sess.applicant_token # <<>>
                   THEN handleStart5(sess.applicant_token)
                   ELSE <<Send("no_active_session")>>
              ELSE IF StartsWith(trimmed, s_help) THEN <<Send("help")>>
              ELSE IF sess # Null /\ sess.step # "completed" THEN <<Send("use_buttons")>>
              ELSE <<Send("start_prompt")>>)

\* handleMessage of the 8-question worker whose age gate is > instead of >=
handleMessage8AgeAbove(sess, entry, now, text) ==
    LET limit == CheckRateLimit(entry, now)
        trimmed == Trim(text)
        parts == SplitWs(trimmed)
        token == IF Len(parts) >= 2 THEN parts[2] ELSE <<>>
        parsed == ParseInt(trimmed)
        aged == [sess EXCEPT !.answers = ("age" :> Number(parsed.val)) @@ sess.answers]
        nextStepIndex == StepIndex(STEP_ORDER8, "q7_age") + 1
    IN  IF limit.threw THEN <<>>
        ELSE IF ~limit.allowed THEN <<Send("too_fast")>>
        ELSE limit.ops \o
             (IF StartsWith(trimmed, s_start)
              THEN IF token = <<>> THEN <<Send("no_token")>> ELSE handleStart8(token)
              ELSE IF StartsWith(trimmed, s_restart)
              THEN IF sess # Null /\ sess.applicant_token # <<>>
                   THEN handleStart8(sess.applicant_token)
                   ELSE <<Send("no_active_session")>>
              ELSE IF StartsWith(trimmed, s_help) THEN <<Send("help")>>
              ELSE IF sess # Null /\ sess.step # "completed"
              THEN IF sess.step = "q7_age"
                   THEN IF parsed.nan \/ parsed.val < MIN_AGE \/ parsed.val > MAX_AGE
                        THEN <<Send("age_reprompt")>>
                        ELSE IF parsed.val > MAX_AGE_THRESHOLD
                        THEN reportResult("fail", "fail_age", aged)
                        ELSE <<SaveSession([aged EXCEPT !.step = StepAt(STEP_ORDER8, nextStepIndex)]),
                               SendQuestion(nextStepIndex)>>
                   ELSE <<Send("use_buttons")>>
              ELSE <<Send("start_prompt")>>)

\* handleMessage of the 8-question worker whose /restart never finds a session
handleMessage8NoRestart(sess, entry, now, text) ==
    LET limit == CheckRateLimit(entry, now)
        trimmed == Trim(text)
        parts == SplitWs(trimmed)
        token == IF Len(parts) >= 2 THEN parts[2] ELSE <<>>
        parsed == ParseInt(trimmed)
        aged == [sess EXCEPT !.answers = ("age" :> Number(parsed.val)) @@ sess.answers]
        nextStepIndex == StepIndex(STEP_ORDER8, "q7_age") + 1
    IN  IF limit.threw THEN <<>>
        ELSE IF ~limit.allowed THEN <<Send("too_fast")>>
        ELSE limit.ops \o
             (IF StartsWith(trimmed, s_start)
              THEN IF token = <<>> THEN <<Send("no_token")>> ELSE handleStart8(token)
              ELSE IF StartsWith(trimmed, s_restart)
              THEN <<Send("no_active_session")>>
              ELSE IF StartsWith(trimmed, s_help) THEN <<Send("help")>>
              ELSE IF sess # Null /\ sess.step # "completed"
              THEN IF sess.step = "q7_age"
                   THEN IF parsed.nan \/ parsed.val < MIN_AGE \/ parsed.val > MAX_AGE
                        THEN <<Send("age_reprompt")>>
                        ELSE IF parsed.val >= MAX_AGE_THRESHOLD
                        THEN reportResult("fail", "fail_age", aged)
                        ELSE <<SaveSession([aged EXCEPT !.step = StepAt(STEP_ORDER8, nextStepIndex)]),
                               SendQuestion(nextStepIndex)>>
                   ELSE <<Send("use_buttons")>>
              ELSE <<Send("start_prompt")>>)

\* handleMessage of the 8-question worker
handleMessage8(sess, entry, now, text) ==
    LET limit == CheckRateLimit(entry, now)
        trimmed == Trim(text)
        parts == SplitWs(trimmed)
        token == IF Len(parts) >= 2 THEN parts[2] ELSE <<>>
        parsed == ParseInt(trimmed)
        aged == [sess EXCEPT !.answers = ("age" :> Number(parsed.val)) @@ sess.answers]
        nextStepIndex == StepIndex(STEP_ORDER8, "q7_age") + 1
    IN  IF limit.threw THEN <<>>
        ELSE IF ~limit.allowed THEN <<Send("too_fast")>>
        ELSE limit.ops \o
             (IF StartsWith(trimmed, s_start)
              THEN IF token = <<>> THEN <<Send("no_token")>> ELSE handleStart8(token)
              ELSE IF StartsWith(trimmed, s_restart)
              THEN IF sess # Null /\ sess.applicant_token # <<>>
                   THEN handleStart8(sess.applicant_token)
                   ELSE <<Send("no_active_session")>>
              ELSE IF StartsWith(trimmed, s_help) THEN <<Send("help")>>
              ELSE IF sess # Null /\ sess.step # "completed"
              THEN IF sess.step = "q7_age"
                   THEN IF parsed.nan \/ parsed.val < MIN_AGE \/ parsed.val > MAX_AGE
                        THEN <<Send("age_reprompt")>>
                        ELSE IF parsed.val >= MAX_AGE_THRESHOLD
                        THEN reportResult("fail", "fail_age", aged)
                        ELSE <<SaveSession([aged EXCEPT !.step = StepAt(STEP_ORDER8, nextStepIndex)]),
                               SendQuestion(nextStepIndex)>>
                   ELSE <<Send("use_buttons")>>
              ELSE <<Send("start_prompt")>>)

\* the answer part of handleCallbackQuery that records a passing answer and
\* asks the same question again
AnswerStays(v, sess, answerValue, e) ==
    LET order == IF v = "v5" THEN STEP_ORDER5 ELSE STEP_ORDER8
        keys == IF v = "v5" THEN QUESTION_KEYS5 ELSE QUESTION_KEYS8
        stepIndex == StepIndex(order, sess.step)
        state == [sess EXCEPT !.answers = (keys[stepIndex + 1] :> answerValue) @@ sess.answers]
        minWeeklyHours == MinWeeklyHours(e)
        failReason == IF v = "v5"
                      THEN checkFailCondition5(sess.step, answerValue, minWeeklyHours)
                      ELSE checkFailCondition8(sess.step, answerValue, minWeeklyHours)
        nextStepIndex == stepIndex + 1
    IN  IF stepIndex = -1 THEN <<>>
        ELSE IF failReason # NoFail THEN reportResult("fail", failReason, state)
        ELSE IF nextStepIndex >= Len(order) THEN reportResult("pass", "", state)
        ELSE <<SaveSession(state), SendQuestion(stepIndex)>>

\* the answer part of handleCallbackQuery that blanks the applicant token
AnswerClearsToken(v, sess, answerValue, e) ==
    LET order == IF v = "v5" THEN STEP_ORDER5 ELSE STEP_ORDER8
        keys == IF v = "v5" THEN QUESTION_KEYS5 ELSE QUESTION_KEYS8
        stepIndex == StepIndex(order, sess.step)
        state == [sess EXCEPT !.answers = (keys[stepIndex + 1] :> answerValue) @@ sess.answers,
                              !.applicant_token = <<>>]
        minWeeklyHours == MinWeeklyHours(e)
        failReason == IF v = "v5"
                      THEN checkFailCondition5(sess.step, answerValue, minWeeklyHours)
                      ELSE checkFailCondition8(sess.step, answerValue, minWeeklyHours)
        nextStepIndex == stepIndex + 1
    IN  IF stepIndex = -1 THEN <<>>
        ELSE IF failReason # NoFail THEN reportResult("fail", failReason, state)
        ELSE IF nextStepIndex >= Len(order) THEN reportResult("pass", "", state)
        ELSE <<SaveSession([state EXCEPT !.step = StepAt(order, nextStepIndex)]),
               SendQuestion(nextStepIndex)>>

\* the part of handleCallbackQuery after the answer value is known: record the
\* answer, check the fail condition, then finish or advance
Answer(v, sess, answerValue, e) ==
    LET order == IF v = "v5" THEN STEP_ORDER5 ELSE STEP_ORDER8
        keys == IF v = "v5" THEN QUESTION_KEYS5 ELSE QUESTION_KEYS8
        stepIndex == StepIndex(order, sess.step)
        state == [sess EXCEPT !.answers = (keys[stepIndex + 1] :> answerValue) @@ sess.answers]
        minWeeklyHours == MinWeeklyHours(e)
        failReason == IF v = "v5"
                      THEN checkFailCondition5(sess.step, answerValue, minWeeklyHours)
                      ELSE checkFailCondition8(sess.step, answerValue, minWeeklyHours)
        nextStepIndex == stepIndex + 1
    IN  IF stepIndex = -1 THEN <<>>
        ELSE IF failReason # NoFail THEN reportResult("fail", failReason, state)
        ELSE IF nextStepIndex >= Len(order) THEN reportResult("pass", "", state)
        ELSE <<SaveSession([state EXCEPT !.step = StepAt(order, nextStepIndex)]),
               SendQuestion(nextStepIndex)>>

\* handleCallbackQuery of the 5-question worker that acknowledges the press
\* only once the rate limiter has admitted it
handleCallbackQuery5AckAfterLimit(sess, entry, now, data, e) ==
    LET limit == CheckRateLimit(entry, now)
        colonIdx == IndexOf(data, ":")
        qPrefix == Slice(data, 0, colonIdx)
        answerValue == Slice(data, colonIdx + 1, Len(data))
    IN  IF limit.threw THEN <<>>
        ELSE IF ~limit.allowed THEN <<Send("too_fast")>>
        ELSE limit.ops \o <<Ack>> \o
             (IF sess = Null THEN <<Send("session_expired")>>
              ELSE IF sess.step = "completed" THEN <<>>
              ELSE IF colonIdx = -1 THEN <<>>
              ELSE IF qPrefix # STEP_PREFIX5(sess.step) THEN <<>>
              ELSE Answer("v5", sess, Str(answerValue), e))

\* handleCallbackQuery of the 5-question worker
handleCallbackQuery5(sess, entry, now, data, e) ==
    LET limit == CheckRateLimit(entry, now)
        colonIdx == IndexOf(data, ":")
        qPrefix == Slice(data, 0, colonIdx)
        answerValue == Slice(data, colonIdx + 1, Len(data))
    IN  <<Ack>> \o
        (IF limit.threw THEN <<>>
         ELSE IF ~limit.allowed THEN <<Send("too_fast")>>
         ELSE limit.ops \o
              (IF sess = Null THEN <<Send("session_expired")>>
               ELSE IF sess.step = "completed" THEN <<>>
               ELSE IF colonIdx = -1 THEN <<>>
               ELSE IF qPrefix # STEP_PREFIX5(sess.step) THEN <<>>
               ELSE Answer("v5", sess, Str(answerValue), e)))

\* handleCallbackQuery of the 8-question worker that loads the session before
\* it checks the rate limit
handleCallbackQuery8LoadsFirst(sess, entry, now, data, e) ==
    LET limit == CheckRateLimit(entry, now)
        underscoreIdx == IndexOf(data, "_")
        qPrefix == Slice(data, 0, underscoreIdx)
        callbackSuffix == Slice(data, underscoreIdx + 1, Len(data))
        prefixMap == CALLBACK_VALUE_MAP(qPrefix)
        answerValue == CallbackValue(prefixMap, callbackSuffix)
    IN  <<Ack>> \o
        (IF sess = Null THEN <<Send("session_expired")>>
         ELSE IF limit.threw THEN <<>>
         ELSE IF ~limit.allowed THEN <<Send("too_fast")>>
         ELSE limit.ops \o
              (IF sess.step = "completed" THEN <<>>
               ELSE IF underscoreIdx = -1 THEN <<>>
               ELSE IF qPrefix # STEP_PREFIX8(sess.step) THEN <<>>
               ELSE IF prefixMap = Undefined THEN <<>>
               ELSE IF answerValue = Undefined THEN <<>>
               ELSE Answer("v8", sess, answerValue, e)))

\* handleCallbackQuery of the 8-question worker without the comparison of the
\* prefix with the current step's
handleCallbackQuery8NoStaleCheck(sess, entry, now, data, e) ==
    LET limit == CheckRateLimit(entry, now)
        underscoreIdx == IndexOf(data, "_")
        qPrefix == Slice(data, 0, underscoreIdx)
        callbackSuffix == Slice(data, underscoreIdx + 1, Len(data))
        prefixMap == CALLBACK_VALUE_MAP(qPrefix)
        answerValue == CallbackValue(prefixMap, callbackSuffix)
    IN  <<Ack>> \o
        (IF limit.threw THEN <<>>
         ELSE IF ~limit.allowed THEN <<Send("too_fast")>>
         ELSE limit.ops \o
              (IF sess = Null THEN <<Send("session_expired")>>
               ELSE IF sess.step = "completed" THEN <<>>
               ELSE IF underscoreIdx = -1 THEN <<>>
               ELSE IF prefixMap = Undefined THEN <<>>
               ELSE IF answerValue = Undefined THEN <<>>
               ELSE Answer("v8", sess, answerValue, e)))

\* handleCallbackQuery of the 8-question worker
handleCallbackQuery8(sess, entry, now, data, e) ==
    LET limit == CheckRateLimit(entry, now)
        underscoreIdx == IndexOf(data, "_")
        qPrefix == Slice(data, 0, underscoreIdx)
        callbackSuffix == Slice(data, underscoreIdx + 1, Len(data))
        prefixMap == CALLBACK_VALUE_MAP(qPrefix)
        answerValue == CallbackValue(prefixMap, callbackSuffix)
    IN  <<Ack>> \o
        (IF limit.threw THEN <<>>
         ELSE IF ~limit.allowed THEN <<Send("too_fast")>>
         ELSE limit.ops \o
              (IF sess = Null THEN <<Send("session_expired")>>
               ELSE IF sess.step = "completed" THEN <<>>
               ELSE IF underscoreIdx = -1 THEN <<>>
               ELSE IF qPrefix # STEP_PREFIX8(sess.step) THEN <<>>
               ELSE IF prefixMap = Undefined THEN <<>>
               ELSE IF answerValue = Undefined THEN <<>>
               ELSE Answer("v8", sess, answerValue, e)))

----------------------------------------------------------------------------
(* Inputs *)

\* callback_data of buttons that QUESTIONS of the 5-question worker renders:
\* every button of the two-button questions, the first and last of the others
CatalogButtons5 ==
    { <<"q", "1", ":", "y", "e", "s">>,
      <<"q", "1", ":", "n", "o">>,
      <<"q", "2", ":", "f", "u", "l", "l", "_", "t", "i", "m", "e">>,
      <<"q", "2", ":", "p", "a", "r", "t", "_", "t", "i", "m", "e">>,
      <<"q", "2", ":", "l", "e", "s", "s", "_", "t", "h", "a", "n", "_", "1", "5">>,
      <<"q", "3", ":", "i", "m", "m", "e", "d", "i", "a", "t", "e", "l", "y">>,
      <<"q", "3", ":", "o", "n", "e", "_", "m", "o", "n", "t", "h", "_", "p", "l", "u", "s">>,
      <<"q", "4", ":", "y", "e", "s">>,
      <<"q", "4", ":", "n", "o">>,
      <<"q", "5", ":", "y", "e", "s">>,
      <<"q", "5", ":", "n", "o">> }

\* callback_data the catalog does not render: empty, no separator, unknown value
OtherButtons5 ==
    { <<>>,
      <<"q", "1", "y", "e", "s">>,
      <<"q", "1", ":", "m", "a", "y", "b", "e">> }

\* callback_data of buttons that QUESTIONS of the 8-question worker renders
CatalogButtons8 ==
    { <<"Q", "1", "_", "Y", "E", "S">>,
      <<"Q", "1", "_", "N", "O">>,
      <<"Q", "2", "_", "F", "T">>,
      <<"Q", "2", "_", "P", "T">>,
      <<"Q", "2", "_", "L", "O", "W">>,
      <<"Q", "3", "_", "N", "O", "W">>,
      <<"Q", "3", "_", "L", "A", "T", "E", "R">>,
      <<"Q", "4", "_", "Y", "E", "S">>,
      <<"Q", "4", "_", "N", "O">>,
      <<"Q", "5", "_", "Y", "E", "S">>,
      <<"Q", "5", "_", "N", "O">>,
      <<"Q", "6", "_", "G", "O", "O", "D">>,
      <<"Q", "6", "_", "O", "K">>,
      <<"Q", "6", "_", "L", "O", "W">>,
      <<"Q", "8", "_", "K", "I", "D", "S">>,
      <<"Q", "8", "_", "A", "L", "L">> }

\* callback_data the catalog does not render: empty, no separator, unknown
\* suffix, the prefix of the free-text step, an Object.prototype key as suffix
OtherButtons8 ==
    { <<>>,
      <<"Q", "1", "Y", "E", "S">>,
      <<"Q", "1", "_", "M", "A", "Y", "B", "E">>,
      <<"Q", "7", "_", "2", "4">>,
      <<"Q", "1", "_", "c", "o", "n", "s", "t", "r", "u", "c", "t", "o", "r">> }

\* message texts that are commands; a message without text is the empty string
CommandTexts ==
    { <<"/", "s", "t", "a", "r", "t", " ", "a", "b", "c", "d">>,
      <<"/", "s", "t", "a", "r", "t", " ", "t", "o", "k", "-", "2">>,
      <<"/", "s", "t", "a", "r", "t", " ", "a", "b", "c">>,
      <<"/", "s", "t", "a", "r", "t">>,
      <<"/", "r", "e", "s", "t", "a", "r", "t">>,
      <<"/", "h", "e", "l", "p">> }

PlainTexts ==
    { <<>>,
      <<"h", "e", "l", "l", "o">> }

\* texts sent at the age step of the 8-question worker
AgeTexts ==
    { <<"1", "0">>,
      <<"2", "4", "a", "b", "c">>,
      <<"3", "5">>,
      <<"8", "0">>,
      <<"8", "1">>,
      <<"9">>,
      <<"a", "b", "c">> }

Buttons(v) ==
    IF v = "v5" THEN CatalogButtons5 \cup OtherButtons5 ELSE CatalogButtons8 \cup OtherButtons8

Texts(v) ==
    IF v = "v5" THEN CommandTexts \cup PlainTexts
    ELSE CommandTexts \cup PlainTexts \cup AgeTexts

\* values of env.MIN_WEEKLY_HOURS in the handlers' specification
EnvValues == { Undefined, Str(<<"3", "0">>) }

\* values of env.MIN_WEEKLY_HOURS when the fail predicate is evaluated alone
EnvValuesFn ==
    { Undefined } \cup
    { Str(x) : x \in
      { <<"0">>,
        <<"1", "4">>,
        <<"1", "5">>,
        <<"2", "0">>,
        <<"2", "1">>,
        <<"3", "0">>,
        <<"3", "1">>,
        <<"a", "b", "c">>,
        <<>> } }

\* the answer values of both catalogs
CanonicalValues ==
    { <<"y", "e", "s">>,
      <<"n", "o">>,
      <<"f", "u", "l", "l", "_", "t", "i", "m", "e">>,
      <<"p", "a", "r", "t", "_", "t", "i", "m", "e">>,
      <<"l", "e", "s", "s", "_", "t", "h", "a", "n", "_", "1", "5">>,
      <<"l", "o", "w">>,
      <<"i", "m", "m", "e", "d", "i", "a", "t", "e", "l", "y">>,
      <<"o", "n", "e", "_", "t", "w", "o", "_", "w", "e", "e", "k", "s">>,
      <<"o", "n", "e", "_", "m", "o", "n", "t", "h", "_", "p", "l", "u", "s">>,
      <<"n", "o", "w">>,
      <<"s", "o", "o", "n">>,
      <<"l", "a", "t", "e", "r">>,
      <<"g", "o", "o", "d">>,
      <<"o", "k">>,
      <<"k", "i", "d", "s">>,
      <<"t", "e", "e", "n", "s">>,
      <<"a", "d", "u", "l", "t", "s">>,
      <<"a", "l", "l">> }

----------------------------------------------------------------------------
(* Handler invocations in progress *)

\* two invocations of the worker can be in progress for one chat
Procs == {1, 2}

\* no update being handled
IdleProc ==
    [pc |-> "idle", kind |-> "none", data |-> <<>>, now |-> 0, entry |-> NoEntry, sess |-> Null, todo |-> <<>>]

NoProcs == [p \in Procs |-> IdleProc]

----------------------------------------------------------------------------
(* State changes *)

RECURSIVE SessionAfter(_, _, _)
\* the stored session after the puts and deletes of ops; a failing delete is
\* caught by deleteSession and leaves the key
SessionAfter(ops, s, delOk) ==
    IF ops = <<>> THEN s
    ELSE LET o == Head(ops)
         IN  SessionAfter(Tail(ops),
                          IF o.op = "put" THEN o.value
                          ELSE IF o.op = "delete" /\ delOk THEN Null
                          ELSE s,
                          delOk)

\* the rate-limit key after the put of ops, if any
RlAfter(ops, entry, now) ==
    IF \E i \in DOMAIN ops : ops[i].op = "rlput"
    THEN LET o == ops[CHOOSE i \in DOMAIN ops : ops[i].op = "rlput"]
         IN  KVPut(o.value, o.ttl, now)
    ELSE entry

HasDelete(ops) == \E i \in DOMAIN ops : ops[i].op = "delete"

NumDispatch(ops) == Cardinality({i \in DOMAIN ops : ops[i].op = "dispatch"})

\* handleStart's save: the only save of a session at the first step
Created(ops) ==
    \E i \in DOMAIN ops : ops[i].op = "put" /\ ops[i].value.step = "q1_team_role"

\* the calls made, with the outcome of the delete
Observed(ops, delOk) ==
    [i \in DOMAIN ops |->
        IF ops[i].op = "delete" THEN [op |-> "delete", ok |-> delOk] ELSE ops[i]]

Commit(ops) ==
    \E delOk \in (IF HasDelete(ops) THEN BOOLEAN ELSE {TRUE}) :
        /\ rl' = RlAfter(ops, rl, clock)
        /\ session' = SessionAfter(ops, session, delOk)
        /\ out' = Observed(ops, delOk)
        /\ verdicts' = (IF Created(ops) THEN 0 ELSE verdicts) + NumDispatch(ops)
        /\ UNCHANGED <<variant, env, clock, ret, admitted, fnIn, fnOut, procs>>

\* handleWebhook with update.message
HandleMessage(text) ==
    Commit(IF variant = "v5"
           THEN handleMessage5(session, rl, clock, text)
           ELSE handleMessage8(session, rl, clock, text))

\* handleWebhook with update.callback_query
HandleCallbackQuery(data) ==
    Commit(IF variant = "v5"
           THEN handleCallbackQuery5(session, rl, clock, data, env)
           ELSE handleCallbackQuery8(session, rl, clock, data, env))

\* time passes between two updates
Advance ==
    /\ clock + Tick <= MaxTicks * Tick
    /\ clock' = clock + Tick
    /\ UNCHANGED <<variant, env, rl, session, out, verdicts, ret, admitted, fnIn, fnOut, procs>>

Idle == [pending |-> TRUE]

Init ==
    /\ variant \in {"v5", "v8"}
    /\ env \in EnvValues
    /\ clock = 0
    /\ rl = NoEntry
    /\ session = Null
    /\ out = <<>>
    /\ verdicts = 0
    /\ ret = "none"
    /\ admitted = <<>>
    /\ fnIn = Idle
    /\ fnOut = Idle
    /\ procs = NoProcs

Next ==
    \/ \E text \in Texts(variant) : HandleMessage(text)
    \/ \E data \in Buttons(variant) : HandleCallbackQuery(data)
    \/ Advance

Spec == Init /\ [][Next]_vars

----------------------------------------------------------------------------
(* The rate limiter alone *)

\* one call of checkRateLimit
RlCall ==
    LET limit == CheckRateLimit(rl, clock)
    IN  /\ rl' = RlAfter(limit.ops, rl, clock)
        /\ ret' = IF limit.threw THEN "threw" ELSE IF limit.allowed THEN "allowed" ELSE "rejected"
        /\ admitted' = IF limit.allowed THEN Append(admitted, clock) ELSE admitted
        /\ out' = limit.ops
        /\ UNCHANGED <<variant, env, clock, session, verdicts, fnIn, fnOut, procs>>

TTL_MS == 1000 * RATE_LIMIT_TTL_SECONDS

\* half a window passes
RlTick ==
    /\ (clock % TTL_MS) + TickRL <= MaxTicksRL * TickRL
    /\ clock' = clock + TickRL
    /\ UNCHANGED <<variant, env, rl, session, out, verdicts, ret, admitted, fnIn, fnOut, procs>>

\* the TTL of the rate-limit key passes
RlLapse ==
    /\ clock \div TTL_MS < MaxLapses
    /\ clock' = clock + TTL_MS
    /\ UNCHANGED <<variant, env, rl, session, out, verdicts, ret, admitted, fnIn, fnOut, procs>>

InitRL ==
    /\ variant = "v8"
    /\ env = Undefined
    /\ clock = 0
    /\ rl = NoEntry
    /\ session = Null
    /\ out = <<>>
    /\ verdicts = 0
    /\ ret = "none"
    /\ admitted = <<>>
    /\ fnIn = Idle
    /\ fnOut = Idle
    /\ procs = NoProcs

NextRL == RlCall \/ RlTick \/ RlLapse

SpecRL == InitRL /\ [][NextRL]_vars

----------------------------------------------------------------------------
(* The fail predicate alone *)

Evaluate ==
    /\ fnOut = Idle
    /\ fnOut' = [minWeeklyHours |-> MinWeeklyHours(fnIn.env),
                 reason |-> IF fnIn.variant = "v5"
                            THEN checkFailCondition5(fnIn.step, Str(fnIn.answer),
                                                     MinWeeklyHours(fnIn.env))
                            ELSE checkFailCondition8(fnIn.step, Str(fnIn.answer),
                                                     MinWeeklyHours(fnIn.env))]
    /\ UNCHANGED <<variant, env, clock, rl, session, out, verdicts, ret, admitted, fnIn, procs>>

InitFn ==
    /\ variant = "v8"
    /\ env = Undefined
    /\ clock = 0
    /\ rl = NoEntry
    /\ session = Null
    /\ out = <<>>
    /\ verdicts = 0
    /\ ret = "none"
    /\ admitted = <<>>
    /\ fnOut = Idle
    /\ procs = NoProcs
    /\ \E v \in {"v5", "v8"} :
         \E step \in {(IF v = "v5" THEN STEP_ORDER5 ELSE STEP_ORDER8)[i] :
                          i \in 1..(IF v = "v5" THEN 5 ELSE 8)} :
         \E answer \in CanonicalValues :
         \E e \in EnvValuesFn :
             fnIn = [variant |-> v, step |-> step, answer |-> answer, env |-> e]

NextFn == Evaluate

SpecFn == InitFn /\ [][NextFn]_vars

----------------------------------------------------------------------------
(* Handlers whose calls can fail, and a worker that can be stopped *)

\* how a call can end when deleteSession does not catch a rejected KV delete
OutcomesDeleteThrows(o) ==
    CASE o.op \in {"ack", "send"} -> {"ok", "failed", "threw"}
      [] o.op \in {"put", "rlput", "delete"} -> {"ok", "threw"}
      [] o.op = "dispatch" ->
            IF "awaited" \in DOMAIN o THEN {"ok", "threw"} ELSE {"ok", "failed"}

\* how a call can end. A fetch to Telegram resolves (ok), resolves with an HTTP
\* error that sendMessage / answerCallbackQuery log (failed), or rejects
\* (threw); a KV put resolves or rejects; a rejected KV delete is caught by
\* deleteSession (failed); the webhook POST is not awaited and its rejection is
\* caught (failed), unless the call is marked as awaited
Outcomes(o) ==
    CASE o.op \in {"ack", "send"} -> {"ok", "failed", "threw"}
      [] o.op \in {"put", "rlput"} -> {"ok", "threw"}
      [] o.op = "delete" -> {"ok", "failed"}
      [] o.op = "dispatch" ->
            IF "awaited" \in DOMAIN o THEN {"ok", "threw"} ELSE {"ok", "failed"}

\* the call with its outcome
Mark(o, st) == [x \in DOMAIN o \cup {"st"} |-> IF x = "st" THEN st ELSE o[x]]

\* the worker was stopped before its next call
Crash == [op |-> "crash", st |-> "threw"]

RECURSIVE Runs(_, _)
\* the executions of a handler that makes the calls ops, with at most budget
\* faults: an exception that no function catches ends the handler (it is
\* caught and logged in handleWebhook), and so does a stop of the worker
Runs(ops, budget) ==
    IF ops = <<>> THEN {<<>>}
    ELSE LET o == Head(ops)
             rest(b) == Runs(Tail(ops), b)
         IN  {<<Mark(o, "ok")>> \o r : r \in rest(budget)}
             \cup (IF budget = 0 THEN {}
                   ELSE {<<Crash>>}
                        \cup (IF "threw" \in Outcomes(o) THEN {<<Mark(o, "threw")>>} ELSE {})
                        \cup (IF "failed" \in Outcomes(o)
                              THEN {<<Mark(o, "failed")>> \o r : r \in rest(budget - 1)}
                              ELSE {}))

RECURSIVE SessionAfterRun(_, _)
\* the stored session after the puts and deletes of a run that succeeded
SessionAfterRun(run, s) ==
    IF run = <<>> THEN s
    ELSE LET o == Head(run)
         IN  SessionAfterRun(Tail(run),
                             IF o.op = "put" /\ o.st = "ok" THEN o.value
                             ELSE IF o.op = "delete" /\ o.st = "ok" THEN Null
                             ELSE s)

\* the rate-limit key after the put of a run, if it succeeded
RlAfterRun(run, entry, now) ==
    IF \E i \in DOMAIN run : run[i].op = "rlput" /\ run[i].st = "ok"
    THEN LET o == run[CHOOSE i \in DOMAIN run : run[i].op = "rlput"]
         IN  KVPut(o.value, o.ttl, now)
    ELSE entry

\* handleStart's save went through
CreatedIn(run) ==
    \E i \in DOMAIN run :
        run[i].op = "put" /\ run[i].st = "ok" /\ run[i].value.step = "q1_team_role"

CommitRun(ops) ==
    \E run \in Runs(ops, MaxFaults) :
        /\ rl' = RlAfterRun(run, rl, clock)
        /\ session' = SessionAfterRun(run, session)
        /\ out' = run
        /\ verdicts' = (IF CreatedIn(run) THEN 0 ELSE verdicts) + NumDispatch(run)
        /\ UNCHANGED <<variant, env, clock, ret, admitted, fnIn, fnOut, procs>>

\* handleWebhook with update.message, calls failing
HandleMessageF(text) ==
    CommitRun(IF variant = "v5"
              THEN handleMessage5(session, rl, clock, text)
              ELSE handleMessage8(session, rl, clock, text))

\* handleWebhook with update.callback_query, calls failing
HandleCallbackQueryF(data) ==
    CommitRun(IF variant = "v5"
              THEN handleCallbackQuery5(session, rl, clock, data, env)
              ELSE handleCallbackQuery8(session, rl, clock, data, env))

\* the updates of one screening: /start, an age that passes and one that
\* fails, and per step a button that passes, with two that fail
FaultTexts(v) ==
    IF v = "v5" THEN { <<"/", "s", "t", "a", "r", "t", " ", "a", "b", "c", "d">> }
    ELSE { <<"/", "s", "t", "a", "r", "t", " ", "a", "b", "c", "d">>,
           <<"1", "0">>, <<"3", "5">> }

FaultButtons(v) ==
    IF v = "v5"
    THEN { <<"q", "1", ":", "y", "e", "s">>,
           <<"q", "1", ":", "n", "o">>,
           <<"q", "2", ":", "f", "u", "l", "l", "_", "t", "i", "m", "e">>,
           <<"q", "3", ":", "i", "m", "m", "e", "d", "i", "a", "t", "e", "l", "y">>,
           <<"q", "4", ":", "y", "e", "s">>,
           <<"q", "4", ":", "n", "o">>,
           <<"q", "5", ":", "y", "e", "s">> }
    ELSE { <<"Q", "1", "_", "Y", "E", "S">>,
           <<"Q", "1", "_", "N", "O">>,
           <<"Q", "2", "_", "F", "T">>,
           <<"Q", "3", "_", "N", "O", "W">>,
           <<"Q", "4", "_", "Y", "E", "S">>,
           <<"Q", "4", "_", "N", "O">>,
           <<"Q", "5", "_", "Y", "E", "S">>,
           <<"Q", "6", "_", "O", "K">>,
           <<"Q", "8", "_", "A", "L", "L">> }

InitFault ==
    /\ variant \in {"v5", "v8"}
    /\ env = Undefined
    /\ clock = 0
    /\ rl = NoEntry
    /\ session = Null
    /\ out = <<>>
    /\ verdicts = 0
    /\ ret = "none"
    /\ admitted = <<>>
    /\ fnIn = Idle
    /\ fnOut = Idle
    /\ procs = NoProcs

NextFault ==
    \/ \E text \in FaultTexts(variant) : HandleMessageF(text)
    \/ \E data \in FaultButtons(variant) : HandleCallbackQueryF(data)
    \/ Advance

SpecFault == InitFault /\ [][NextFault]_vars

----------------------------------------------------------------------------
(* Two invocations for one chat, their KV reads and their calls interleaved *)

\* calls the handler makes for the update of invocation q, as computed from
\* the rate-limit entry and the session it has read
HandlerOps(q) ==
    IF q.kind = "message"
    THEN IF variant = "v5"
         THEN handleMessage5(q.sess, q.entry, q.now, q.data)
         ELSE handleMessage8(q.sess, q.entry, q.now, q.data)
    ELSE IF variant = "v5"
         THEN handleCallbackQuery5(q.sess, q.entry, q.now, q.data, env)
         ELSE handleCallbackQuery8(q.sess, q.entry, q.now, q.data, env)

\* the updates delivered: /start once, while there is no session, no verdict
\* and no other invocation; then presses of the buttons of the first step
RaceUpdates ==
    IF session = Null /\ verdicts = 0 /\ procs = NoProcs
    THEN { [kind |-> "message", data |-> <<"/", "s", "t", "a", "r", "t", " ", "a", "b", "c", "d">>] }
    ELSE { [kind |-> "callback_query", data |-> d] :
             d \in (IF variant = "v5"
                    THEN { <<"q", "1", ":", "y", "e", "s">>, <<"q", "1", ":", "n", "o">> }
                    ELSE { <<"Q", "1", "_", "Y", "E", "S">>, <<"Q", "1", "_", "N", "O">> }) }

\* handleWebhook is entered (answerCallbackQuery, which touches no stored
\* state, is made here)
Receive(p) ==
    /\ procs[p].pc = "idle"
    /\ Len(admitted) + Cardinality({q \in Procs : procs[q].pc \in {"limit_get", "limit_put"}})
          < MaxUpdates
    /\ \E u \in RaceUpdates :
          procs' = [procs EXCEPT ![p] = [IdleProc EXCEPT !.pc = "limit_get",
                                                         !.kind = u.kind,
                                                         !.data = u.data]]
    /\ UNCHANGED <<variant, env, clock, rl, session, out, verdicts, ret, admitted, fnIn, fnOut>>

\* checkRateLimit: now = Date.now() and env.BOT_KV.get(key)
LimitGet(p) ==
    /\ procs[p].pc = "limit_get"
    /\ procs' = [procs EXCEPT ![p].now = clock, ![p].entry = rl, ![p].pc = "limit_put"]
    /\ UNCHANGED <<variant, env, clock, rl, session, out, verdicts, ret, admitted, fnIn, fnOut>>

\* checkRateLimit: the decision and env.BOT_KV.put, or the notice of the handler
LimitPut(p) ==
    /\ procs[p].pc = "limit_put"
    /\ LET limit == CheckRateLimit(procs[p].entry, procs[p].now)
       IN  /\ rl' = RlAfter(limit.ops, rl, clock)
           /\ admitted' = IF limit.allowed THEN Append(admitted, procs[p].now) ELSE admitted
           /\ procs' = [procs EXCEPT ![p] = IF limit.allowed
                                            THEN [@ EXCEPT !.pc = "load"]
                                            ELSE IdleProc]
    /\ UNCHANGED <<variant, env, clock, session, out, verdicts, ret, fnIn, fnOut>>

\* loadSession, after which the calls to make are determined
Load(p) ==
    /\ procs[p].pc = "load"
    /\ LET q == [procs[p] EXCEPT !.sess = session]
           todo == SelectSeq(HandlerOps(q), LAMBDA o : o.op \notin {"ack", "rlput"})
       IN  procs' = [procs EXCEPT ![p] = IF todo = <<>> THEN IdleProc
                                         ELSE [q EXCEPT !.pc = "run", !.todo = todo]]
    /\ UNCHANGED <<variant, env, clock, rl, session, out, verdicts, ret, admitted, fnIn, fnOut>>

\* the next call of the handler: a message, the webhook POST, a save, the delete
Call(p) ==
    /\ procs[p].pc = "run"
    /\ LET o == Head(procs[p].todo)
           rest == Tail(procs[p].todo)
       IN  /\ procs' = [procs EXCEPT ![p] = IF rest = <<>> THEN IdleProc
                                             ELSE [@ EXCEPT !.todo = rest]]
           /\ \E delOk \in (IF o.op = "delete" THEN BOOLEAN ELSE {TRUE}) :
                 session' = SessionAfter(<<o>>, session, delOk)
           /\ out' = IF o.op = "dispatch" THEN Append(out, o) ELSE out
           /\ verdicts' = (IF Created(<<o>>) THEN 0 ELSE verdicts) + NumDispatch(<<o>>)
    /\ UNCHANGED <<variant, env, clock, rl, ret, admitted, fnIn, fnOut>>

InitRace ==
    /\ variant \in {"v5", "v8"}
    /\ env = Undefined
    /\ clock = 0
    /\ rl = NoEntry
    /\ session = Null
    /\ out = <<>>
    /\ verdicts = 0
    /\ ret = "none"
    /\ admitted = <<>>
    /\ fnIn = Idle
    /\ fnOut = Idle
    /\ procs = NoProcs

NextRace ==
    \E p \in Procs : Receive(p) \/ LimitGet(p) \/ LimitPut(p) \/ Load(p) \/ Call(p)

SpecRace == InitRace /\ [][NextRace]_vars

----------------------------------------------------------------------------
(* Concurrent checkRateLimit calls for one chat, time passing between them *)

\* a call of checkRateLimit begins
LimitEnter(p) ==
    /\ procs[p].pc = "idle"
    /\ Len(admitted) + Cardinality({q \in Procs : procs[q].pc \in {"limit_get", "limit_put"}})
          < MaxCalls
    /\ procs' = [procs EXCEPT ![p] = [IdleProc EXCEPT !.pc = "limit_get"]]
    /\ UNCHANGED <<variant, env, clock, rl, session, out, verdicts, ret, admitted, fnIn, fnOut>>

\* checkRateLimit returns true to its caller
LimitReturn(p) ==
    /\ procs[p].pc = "load"
    /\ procs' = [procs EXCEPT ![p] = IdleProc]
    /\ UNCHANGED <<variant, env, clock, rl, session, out, verdicts, ret, admitted, fnIn, fnOut>>

InitLimit ==
    /\ variant = "v8"
    /\ env = Undefined
    /\ clock = 0
    /\ rl = NoEntry
    /\ session = Null
    /\ out = <<>>
    /\ verdicts = 0
    /\ ret = "none"
    /\ admitted = <<>>
    /\ fnIn = Idle
    /\ fnOut = Idle
    /\ procs = NoProcs

NextLimit ==
    \/ \E p \in Procs : LimitEnter(p) \/ LimitGet(p) \/ LimitPut(p) \/ LimitReturn(p)
    \/ RlTick

SpecLimit == InitLimit /\ [][NextLimit]_vars

----------------------------------------------------------------------------
(* Handlers that find a rate-limit key the worker did not write *)

\* texts under the rate-limit key that are not a JSON of { timestamps: [...] }
CorruptValues == { Unparseable, ObjectWithoutList }

InitCorrupt ==
    /\ variant \in {"v5", "v8"}
    /\ env = Undefined
    /\ clock = 0
    /\ rl \in { [value |-> x, expiresAt |-> 1000 * RATE_LIMIT_TTL_SECONDS] : x \in CorruptValues }
    /\ session = Null
    /\ out = <<>>
    /\ verdicts = 0
    /\ ret = "none"
    /\ admitted = <<>>
    /\ fnIn = Idle
    /\ fnOut = Idle
    /\ procs = NoProcs

NextCorrupt ==
    \/ \E text \in FaultTexts(variant) : HandleMessage(text)
    \/ \E data \in FaultButtons(variant) : HandleCallbackQuery(data)
    \/ Advance

SpecCorrupt == InitCorrupt /\ [][NextCorrupt]_vars

----------------------------------------------------------------------------
(* What the specification says of the catalog: for each button pressed in the   *)
(* model, the step it belongs to (1-based), its answer key and canonical value  *)

ButtonTable5 ==
    { [data |-> <<"q", "1", ":", "y", "e", "s">>, idx |-> 1, key |-> "team_role", value |-> <<"y", "e", "s">>],
      [data |-> <<"q", "1", ":", "n", "o">>, idx |-> 1, key |-> "team_role", value |-> <<"n", "o">>],
      [data |-> <<"q", "2", ":", "f", "u", "l", "l", "_", "t", "i", "m", "e">>, idx |-> 2, key |-> "weekly_availability", value |-> <<"f", "u", "l", "l", "_", "t", "i", "m", "e">>],
      [data |-> <<"q", "2", ":", "p", "a", "r", "t", "_", "t", "i", "m", "e">>, idx |-> 2, key |-> "weekly_availability", value |-> <<"p", "a", "r", "t", "_", "t", "i", "m", "e">>],
      [data |-> <<"q", "2", ":", "l", "e", "s", "s", "_", "t", "h", "a", "n", "_", "1", "5">>, idx |-> 2, key |-> "weekly_availability", value |-> <<"l", "e", "s", "s", "_", "t", "h", "a", "n", "_", "1", "5">>],
      [data |-> <<"q", "3", ":", "i", "m", "m", "e", "d", "i", "a", "t", "e", "l", "y">>, idx |-> 3, key |-> "start_date", value |-> <<"i", "m", "m", "e", "d", "i", "a", "t", "e", "l", "y">>],
      [data |-> <<"q", "3", ":", "o", "n", "e", "_", "m", "o", "n", "t", "h", "_", "p", "l", "u", "s">>, idx |-> 3, key |-> "start_date", value |-> <<"o", "n", "e", "_", "m", "o", "n", "t", "h", "_", "p", "l", "u", "s">>],
      [data |-> <<"q", "4", ":", "y", "e", "s">>, idx |-> 4, key |-> "setup", value |-> <<"y", "e", "s">>],
      [data |-> <<"q", "4", ":", "n", "o">>, idx |-> 4, key |-> "setup", value |-> <<"n", "o">>],
      [data |-> <<"q", "5", ":", "y", "e", "s">>, idx |-> 5, key |-> "sop", value |-> <<"y", "e", "s">>],
      [data |-> <<"q", "5", ":", "n", "o">>, idx |-> 5, key |-> "sop", value |-> <<"n", "o">>] }

ButtonTable8 ==
    { [data |-> <<"Q", "1", "_", "Y", "E", "S">>, idx |-> 1, key |-> "team_role", value |-> <<"y", "e", "s">>],
      [data |-> <<"Q", "1", "_", "N", "O">>, idx |-> 1, key |-> "team_role", value |-> <<"n", "o">>],
      [data |-> <<"Q", "2", "_", "F", "T">>, idx |-> 2, key |-> "weekly_availability", value |-> <<"f", "u", "l", "l", "_", "t", "i", "m", "e">>],
      [data |-> <<"Q", "2", "_", "P", "T">>, idx |-> 2, key |-> "weekly_availability", value |-> <<"p", "a", "r", "t", "_", "t", "i", "m", "e">>],
      [data |-> <<"Q", "2", "_", "L", "O", "W">>, idx |-> 2, key |-> "weekly_availability", value |-> <<"l", "o", "w">>],
      [data |-> <<"Q", "3", "_", "N", "O", "W">>, idx |-> 3, key |-> "start_date", value |-> <<"n", "o", "w">>],
      [data |-> <<"Q", "3", "_", "L", "A", "T", "E", "R">>, idx |-> 3, key |-> "start_date", value |-> <<"l", "a", "t", "e", "r">>],
      [data |-> <<"Q", "4", "_", "Y", "E", "S">>, idx |-> 4, key |-> "setup", value |-> <<"y", "e", "s">>],
      [data |-> <<"Q", "4", "_", "N", "O">>, idx |-> 4, key |-> "setup", value |-> <<"n", "o">>],
      [data |-> <<"Q", "5", "_", "Y", "E", "S">>, idx |-> 5, key |-> "sop", value |-> <<"y", "e", "s">>],
      [data |-> <<"Q", "5", "_", "N", "O">>, idx |-> 5, key |-> "sop", value |-> <<"n", "o">>],
      [data |-> <<"Q", "6", "_", "G", "O", "O", "D">>, idx |-> 6, key |-> "english_level", value |-> <<"g", "o", "o", "d">>],
      [data |-> <<"Q", "6", "_", "O", "K">>, idx |-> 6, key |-> "english_level", value |-> <<"o", "k">>],
      [data |-> <<"Q", "6", "_", "L", "O", "W">>, idx |-> 6, key |-> "english_level", value |-> <<"l", "o", "w">>],
      [data |-> <<"Q", "8", "_", "K", "I", "D", "S">>, idx |-> 8, key |-> "student_types", value |-> <<"k", "i", "d", "s">>],
      [data |-> <<"Q", "8", "_", "A", "L", "L">>, idx |-> 8, key |-> "student_types", value |-> <<"a", "l", "l">>] }

ButtonTable(v) == IF v = "v5" THEN ButtonTable5 ELSE ButtonTable8

StepOrder(v) == IF v = "v5" THEN STEP_ORDER5 ELSE STEP_ORDER8

AnswerKeys(v) == IF v = "v5" THEN QUESTION_KEYS5 ELSE QUESTION_KEYS8

KeysBefore(v, idx) == {AnswerKeys(v)[i] : i \in 1..(idx - 1)}

\* position of a step in the fixed ordering, completed last
Rank(v, step) ==
    IF step = "completed" THEN Len(StepOrder(v)) + 1 ELSE StepIndex(StepOrder(v), step) + 1

\* hours the table gives for a weekly-availability value
TableHours(value) ==
    CASE value = s_full_time -> 30
      [] value = s_part_time -> 20
      [] OTHER -> 0

\* the fail condition of the table
TableFails(key, value, threshold) ==
    CASE key \in {"team_role", "setup", "sop"} -> value = s_no
      [] key = "english_level" -> value = s_low
      [] key = "weekly_availability" -> TableHours(value) < threshold
      [] OTHER -> FALSE

\* the integer a MIN_WEEKLY_HOURS text states, for the texts that state one
ConfiguredHours(e) ==
    CASE e = Str(<<"0">>) -> 0
      [] e = Str(<<"1", "4">>) -> 14
      [] e = Str(<<"1", "5">>) -> 15
      [] e = Str(<<"2", "0">>) -> 20
      [] e = Str(<<"2", "1">>) -> 21
      [] e = Str(<<"3", "0">>) -> 30
      [] e = Str(<<"3", "1">>) -> 31

IntegerEnvs ==
    { Str(x) : x \in { <<"0">>, <<"1", "4">>, <<"1", "5">>, <<"2", "0">>, <<"2", "1">>, <<"3", "0">>, <<"3", "1">> } }

\* the threshold the specification gives: the configured integer, default 15
Threshold(e) == IF e = Undefined THEN 15 ELSE ConfiguredHours(e)

Sends(o) == SelectSeq(o, LAMBDA x : x.op = "send")
Dispatches(o) == SelectSeq(o, LAMBDA x : x.op = "dispatch")
Questions(o) == SelectSeq(o, LAMBDA x : x.op = "send" /\ x.msg = "question")
StoreWrites(o) == SelectSeq(o, LAMBDA x : x.op \in {"put", "delete"})
Sent(o, msg) == \E i \in DOMAIN o : o[i].op = "send" /\ o[i].msg = msg
\* the rate limiter let the update through
Admitted(o) == ~Sent(o, "too_fast")
DeleteFailed(o) == \E i \in DOMAIN o : o[i].op = "delete" /\ ~o[i].ok

----------------------------------------------------------------------------
(* One screening in which the user answers the question in front of them *)

\* /start with a valid token, once, while there is no session
LiveStart ==
    /\ session = Null
    /\ verdicts = 0
    /\ HandleMessage(<<"/", "s", "t", "a", "r", "t", " ", "a", "b", "c", "d">>)

\* an answer to the current step: one of its catalog buttons, or at the age
\* step an age from MIN_AGE to MAX_AGE
LiveAnswer ==
    /\ session # Null
    /\ session.step # "completed"
    /\ \/ \E b \in ButtonTable(variant) :
             b.idx = Rank(variant, session.step) /\ HandleCallbackQuery(b.data)
       \/ /\ session.step = "q7_age"
          /\ \E text \in { <<"1", "0">>, <<"3", "5">> } : HandleMessage(text)

\* the user, told to slow down, waits for the window to pass
LiveWait ==
    /\ LET limit == CheckRateLimit(rl, clock) IN ~limit.allowed
    /\ Advance

InitLive ==
    /\ variant \in {"v5", "v8"}
    /\ env \in EnvValues
    /\ clock = 0
    /\ rl = NoEntry
    /\ session = Null
    /\ out = <<>>
    /\ verdicts = 0
    /\ ret = "none"
    /\ admitted = <<>>
    /\ fnIn = Idle
    /\ fnOut = Idle
    /\ procs = NoProcs

NextLive == LiveStart \/ LiveAnswer \/ LiveWait

\* the user keeps answering: an answer that the rate limiter admits is
\* eventually given, and a wait eventually made
SpecLive ==
    /\ InitLive
    /\ [][NextLive]_vars
    /\ WF_vars(LiveAnswer /\ ~Sent(out', "too_fast"))
    /\ WF_vars(LiveWait)

----------------------------------------------------------------------------
(* C1 *)

\* C1: under button presses and non-command texts handled one at a time, the
\* stored step never moves back. Every update whose handler does not save a new
\* session (only /start and /restart do) creates no session, leaves the step
\* where it is, moves it to the immediately next step or makes it completed
\* (after which the record may be deleted), and changes nothing of a session
\* that is completed.
C1_StepNeverMovesBack ==
    [][~Created(out') =>
          /\ session = Null => session' = Null
          /\ (session # Null /\ session' # Null) =>
                \/ Rank(variant, session'.step) = Rank(variant, session.step)
                \/ /\ session'.step # "completed"
                   /\ Rank(variant, session'.step) = Rank(variant, session.step) + 1
                \/ session'.step = "completed"
          /\ (session # Null /\ session' = Null) =>
                /\ session.step # "completed"
                /\ Len(Dispatches(out')) = 1
          /\ (session # Null /\ session.step = "completed") => session' = session
       ]_vars

\* a session that button presses and an age text moved to the last step
C1_Witness ==
    /\ variant = "v8"
    /\ session # Null
    /\ session.step = "q8_student_types"
    /\ DOMAIN session.answers = KeysBefore("v8", 8)

----------------------------------------------------------------------------
(* C2 *)

\* the buttons of the current step whose value the table lets pass
PassingButtons ==
    {b \in ButtonTable(variant) :
        /\ session # Null
        /\ b.idx = Rank(variant, session.step)
        /\ ~TableFails(b.key, b.value, Threshold(env))}

\* an age text in range (10..80) and below the cut-off
PassingAgeText == <<"1", "0">>

Advanced(idx, key, value) ==
    /\ session' # Null
    /\ session'.step = StepOrder(variant)[idx + 1]
    /\ DOMAIN session'.answers = KeysBefore(variant, idx + 1)
    /\ session'.answers[key] = value
    /\ Dispatches(out') = <<>>
    /\ verdicts' = 0

Passed(key, value) ==
    /\ Len(Dispatches(out')) = 1
    /\ LET payload == Dispatches(out')[1].payload
       IN  /\ payload.result = "pass"
           /\ payload.reason = ""
           /\ DOMAIN payload.answers = KeysBefore(variant, Len(StepOrder(variant)) + 1)
           /\ payload.answers[key] = value
    /\ verdicts' = 1

\* C2: a session is created at the first step with no answers and no verdict;
\* each admitted non-failing answer to the current step of a session that holds
\* the answers of all earlier steps records that answer and moves to the next
\* step without a dispatch; at the last step it yields exactly one dispatch,
\* the only one of the session, with result pass, an empty reason and one
\* answer for every step key.
C2_AllPassingYieldsOnePass ==
    [][/\ Created(out') =>
            /\ session' # Null
            /\ session'.step = StepOrder(variant)[1]
            /\ session'.answers = EmptyAnswers
            /\ verdicts' = 0
       /\ \A b \in PassingButtons :
            ( /\ DOMAIN session.answers = KeysBefore(variant, b.idx)
              /\ verdicts = 0
              /\ HandleCallbackQuery(b.data)
              /\ Admitted(out') )
            => IF b.idx < Len(StepOrder(variant))
               THEN Advanced(b.idx, b.key, Str(b.value))
               ELSE Passed(b.key, Str(b.value))
       /\ ( /\ variant = "v8"
            /\ session # Null
            /\ session.step = "q7_age"
            /\ DOMAIN session.answers = KeysBefore("v8", 7)
            /\ verdicts = 0
            /\ HandleMessage(PassingAgeText)
            /\ Admitted(out') )
          => Advanced(7, "age", Number(10))
      ]_vars

\* the 8-question worker has dispatched a pass with all eight answers
C2_Witness ==
    /\ variant = "v8"
    /\ verdicts = 1
    /\ \E i \in DOMAIN out :
         /\ out[i].op = "dispatch"
         /\ out[i].payload.result = "pass"
         /\ DOMAIN out[i].payload.answers = KeysBefore("v8", 9)

----------------------------------------------------------------------------
(* C3 *)

\* the buttons of the current step whose value the table fails
FailingButtons ==
    {b \in ButtonTable(variant) :
        /\ session # Null
        /\ b.idx = Rank(variant, session.step)
        /\ TableFails(b.key, b.value, Threshold(env))}

\* age texts in range (10..80) and at or above the cut-off
FailingAgeTexts == { <<"3", "5">>, <<"8", "0">> }

TerminalFail ==
    /\ Len(Dispatches(out')) = 1
    /\ Dispatches(out')[1].payload.result = "fail"
    /\ Dispatches(out')[1].payload.reason # ""
    /\ Questions(out') = <<>>
    /\ ~DeleteFailed(out') => session' = Null

\* C3: an admitted answer to the current step that the table fails (a failing
\* button, or at the age step an age in range at or above the cut-off) is
\* terminal: exactly one dispatch, with result fail and a non-empty reason, no
\* question rendered, and the session absent afterwards unless the delete
\* failed.
C3_FailIsTerminal ==
    [][/\ \A b \in FailingButtons :
            (HandleCallbackQuery(b.data) /\ Admitted(out')) => TerminalFail
       /\ \A text \in FailingAgeTexts :
            ( /\ variant = "v8"
              /\ session # Null
              /\ session.step = "q7_age"
              /\ HandleMessage(text)
              /\ Admitted(out') )
            => TerminalFail
      ]_vars

\* a fail was dispatched and the session deleted
C3_Witness ==
    /\ session = Null
    /\ ~DeleteFailed(out)
    /\ \E i \in DOMAIN out :
         /\ out[i].op = "dispatch"
         /\ out[i].payload.result = "fail"
         /\ out[i].payload.reason = "fail_weekly_hours"

----------------------------------------------------------------------------
(* C4 *)

\* the canonical values the catalogs define for each step
CanonicalOf5 ==
    << { <<"y", "e", "s">>, <<"n", "o">> },
       { <<"f", "u", "l", "l", "_", "t", "i", "m", "e">>, <<"p", "a", "r", "t", "_", "t", "i", "m", "e">>, <<"l", "e", "s", "s", "_", "t", "h", "a", "n", "_", "1", "5">> },
       { <<"i", "m", "m", "e", "d", "i", "a", "t", "e", "l", "y">>, <<"o", "n", "e", "_", "t", "w", "o", "_", "w", "e", "e", "k", "s">>, <<"o", "n", "e", "_", "m", "o", "n", "t", "h", "_", "p", "l", "u", "s">> },
       { <<"y", "e", "s">>, <<"n", "o">> },
       { <<"y", "e", "s">>, <<"n", "o">> } >>

CanonicalOf8 ==
    << { <<"y", "e", "s">>, <<"n", "o">> },
       { <<"f", "u", "l", "l", "_", "t", "i", "m", "e">>, <<"p", "a", "r", "t", "_", "t", "i", "m", "e">>, <<"l", "o", "w">> },
       { <<"n", "o", "w">>, <<"s", "o", "o", "n">>, <<"l", "a", "t", "e", "r">> },
       { <<"y", "e", "s">>, <<"n", "o">> },
       { <<"y", "e", "s">>, <<"n", "o">> },
       { <<"g", "o", "o", "d">>, <<"o", "k">>, <<"l", "o", "w">> },
       {  },
       { <<"k", "i", "d", "s">>, <<"t", "e", "e", "n", "s">>, <<"a", "d", "u", "l", "t", "s">>, <<"a", "l", "l">> } >>

CanonicalOf(v, step) ==
    IF v = "v5" THEN CanonicalOf5[Rank(v, step)] ELSE CanonicalOf8[Rank(v, step)]

\* C4: for every step and every canonical value of that step, and whatever the
\* threshold the handler resolved, checkFailCondition returns a reason exactly
\* when the table fails the value: team role, setup and SOP on "no", English
\* level on "low", weekly availability when its hours (30/20/0) are below the
\* threshold, start date and student types never.
C4_FailPredicateMatchesTable ==
    (fnOut # Idle /\ fnIn.answer \in CanonicalOf(fnIn.variant, fnIn.step))
    => ( (fnOut.reason # NoFail)
         <=> TableFails(AnswerKeys(fnIn.variant)[Rank(fnIn.variant, fnIn.step)],
                        fnIn.answer, fnOut.minWeeklyHours) )

\* part-time availability evaluated against a threshold of 21 hours fails
C4_Witness ==
    /\ fnOut # Idle
    /\ fnIn.step = "q2_weekly_hours"
    /\ fnIn.answer = s_part_time
    /\ fnOut.minWeeklyHours = 21
    /\ fnOut.reason = "fail_weekly_hours"

----------------------------------------------------------------------------
(* C5 *)

\* the last update handled was the press of button b, and it dispatched the
\* verdict of the session
VerdictPressed(b) ==
    /\ Len(out) > 0
    /\ out[1] = Ack
    /\ Len(Dispatches(out)) = 1
    /\ LET answers == Dispatches(out)[1].payload.answers
       IN  /\ DOMAIN answers = KeysBefore(variant, b.idx + 1)
           /\ answers[b.key] = Str(b.value)

\* C5: once a button press has brought the session to its verdict, whether the
\* record is still stored as completed or already deleted, an admitted second
\* delivery of the same button press dispatches no result and sends no message.
C5_ReplayIsSilent ==
    [][\A b \in ButtonTable(variant) :
          (VerdictPressed(b) /\ HandleCallbackQuery(b.data) /\ Admitted(out'))
          => (Dispatches(out') = <<>> /\ Sends(out') = <<>>)
      ]_vars

----------------------------------------------------------------------------
(* C6 *)

\* the admitted calls in the window of length RATE_LIMIT_WINDOW_MS ending at T
WindowCount(T) ==
    Cardinality({i \in DOMAIN admitted :
                    admitted[i] <= T /\ T - admitted[i] < RATE_LIMIT_WINDOW_MS})

\* C6: at every instant (the count is largest at the instant of an admission,
\* so these and the present are the instants to look at) at most
\* RATE_LIMIT_MAX_ACTIONS calls were admitted in the trailing window, also
\* after the key has expired.
C6_AtMostFivePerWindow ==
    \A T \in {admitted[i] : i \in DOMAIN admitted} \cup {clock} :
        WindowCount(T) <= RATE_LIMIT_MAX_ACTIONS

\* after an expiry of the key the window is full again and a call is rejected
C6_Witness ==
    /\ clock >= TTL_MS
    /\ ret = "rejected"
    /\ WindowCount(clock) = RATE_LIMIT_MAX_ACTIONS
    /\ Len(admitted) > RATE_LIMIT_MAX_ACTIONS

----------------------------------------------------------------------------
(* C7 *)

\* C7: a rejected checkRateLimit call leaves the stored entry as it was: same
\* timestamps, same expiry.
C7_RejectLeavesWindow ==
    [][(RlCall /\ ret' = "rejected") => (rl' = rl /\ out' = <<>>)]_vars

\* a call was rejected later than the last write of the entry
C7_Witness ==
    /\ ret = "rejected"
    /\ rl # NoEntry
    /\ rl.expiresAt < clock + TTL_MS
    /\ rl.expiresAt > clock

----------------------------------------------------------------------------
(* C8 *)

\* C8: at the weekly-availability step, for every configured integer m >= 0
\* (15 when nothing is configured), an answer whose hours equal m passes and an
\* answer whose hours are m - 1 or less fails.
C8_BoundaryAtConfiguredMinimum ==
    ( /\ fnOut # Idle
      /\ fnIn.step = "q2_weekly_hours"
      /\ fnIn.answer \in CanonicalOf(fnIn.variant, fnIn.step)
      /\ fnIn.env \in IntegerEnvs \cup {Undefined} )
    => LET m == Threshold(fnIn.env)
           hours == TableHours(fnIn.answer)
       IN  /\ hours = m => fnOut.reason = NoFail
           /\ hours <= m - 1 => fnOut.reason # NoFail

----------------------------------------------------------------------------
(* C9 *)

\* /start with no token, and with a token of three characters
RejectedStarts == { <<"/", "s", "t", "a", "r", "t">>, <<"/", "s", "t", "a", "r", "t", " ", "a", "b", "c">> }

\* C9: a /start whose token is missing or shorter than MIN_TOKEN_LENGTH writes
\* nothing to the session store and dispatches nothing: the session, present or
\* absent, is as before; the one message sent is the instruction (or, when the
\* rate limiter rejects the update, its notice).
C9_BadStartChangesNothing ==
    [][\A text \in RejectedStarts :
          HandleMessage(text)
          => /\ session' = session
             /\ StoreWrites(out') = <<>>
             /\ Dispatches(out') = <<>>
             /\ Len(Sends(out')) = 1
             /\ Admitted(out') => Sends(out')[1].msg \in {"no_token", "invalid_token"}
      ]_vars

\* a short token was refused while a screening was under way
C9_Witness ==
    /\ Sent(out, "invalid_token")
    /\ session # Null
    /\ session.step = "q3_start_date"
    /\ DOMAIN session.answers = {"team_role", "weekly_availability"}

----------------------------------------------------------------------------
(* C10 *)

\* /start with a token of four characters or more, and the token
AcceptedStarts ==
    { [text |-> <<"/", "s", "t", "a", "r", "t", " ", "a", "b", "c", "d">>, token |-> <<"a", "b", "c", "d">>],
      [text |-> <<"/", "s", "t", "a", "r", "t", " ", "t", "o", "k", "-", "2">>, token |-> <<"t", "o", "k", "-", "2">>] }

\* C10: an admitted /start with a valid token, whatever the session before it
\* (none, under way, completed), stores a session at the first step with no
\* answers and the given token, and sends the first question.
C10_StartCreatesSession ==
    [][\A c \in AcceptedStarts :
          (HandleMessage(c.text) /\ Admitted(out'))
          => /\ session' = [applicant_token |-> c.token,
                            step |-> "q1_team_role",
                            answers |-> EmptyAnswers]
             /\ \E i \in DOMAIN out' : out'[i] = SendQuestion(0)
             /\ Dispatches(out') = <<>>
      ]_vars

\* a second /start has replaced the session and the first question was sent
C10_Witness ==
    /\ session # Null
    /\ session.applicant_token = <<"t", "o", "k", "-", "2">>
    /\ session.step = "q1_team_role"
    /\ session.answers = EmptyAnswers
    /\ clock > 0
    /\ \E i \in DOMAIN out : out[i] = SendQuestion(0)

----------------------------------------------------------------------------
(* C11 *)

\* the catalog buttons of the steps other than the session's current step
StaleButtons ==
    {b \in ButtonTable(variant) :
        /\ session # Null
        /\ session.step # "completed"
        /\ b.idx # Rank(variant, session.step)}

\* the update was dropped: the session is as before, nothing was written to
\* the session store or dispatched, and no message was sent other than the
\* rate limiter's notice when it rejected the update
Dropped ==
    /\ session' = session
    /\ StoreWrites(out') = <<>>
    /\ Dispatches(out') = <<>>
    /\ Admitted(out') => Sends(out') = <<>>
    /\ Len(Sends(out')) <= 1

\* C11: for every current step of a session under way and every catalog
\* button of another step, the press leaves the session as it was, dispatches
\* nothing and, once past the rate limiter, sends no message.  Stated by
\* contraposition: a step that is not a drop is the press of no such button.
C11_StaleButtonIsDropped ==
    [][~Dropped => \A b \in StaleButtons : ~HandleCallbackQuery(b.data)]_vars

\* at the free-text age step, which has no button of its own, an admitted
\* button press went by without a reply
C11_Witness ==
    /\ variant = "v8"
    /\ session # Null
    /\ session.step = "q7_age"
    /\ Len(out) = 2
    /\ out[1] = Ack
    /\ out[2].op = "rlput"

----------------------------------------------------------------------------
(* C12 *)

\* callback_data the catalog does not define: idx 0 where the separator is
\* missing, else the step whose prefix it carries with a value part that is
\* none of that step's values
MalformedButtons(v) ==
    IF v = "v5"
    THEN { [data |-> <<>>, idx |-> 0],
           [data |-> <<"q", "1", "y", "e", "s">>, idx |-> 0],
           [data |-> <<"q", "1", ":", "m", "a", "y", "b", "e">>, idx |-> 1] }
    ELSE { [data |-> <<>>, idx |-> 0],
           [data |-> <<"Q", "1", "Y", "E", "S">>, idx |-> 0],
           [data |-> <<"Q", "1", "_", "M", "A", "Y", "B", "E">>, idx |-> 1],
           [data |-> <<"Q", "1", "_", "c", "o", "n", "s", "t", "r", "u", "c", "t", "o", "r">>, idx |-> 1],
           [data |-> <<"Q", "7", "_", "2", "4">>, idx |-> 7] }

\* C12: in both workers, a button press without the separator, or with the
\* current step's prefix and a value part the catalog does not define for that
\* step, is dropped: no answer recorded, step unchanged, nothing dispatched,
\* and, once past the rate limiter, no message sent.
C12_MalformedButtonIsDropped ==
    [][~Dropped =>
          \A m \in MalformedButtons(variant) :
              ~( /\ session # Null
                 /\ session.step # "completed"
                 /\ m.idx \in {0, Rank(variant, session.step)}
                 /\ HandleCallbackQuery(m.data) )
      ]_vars

----------------------------------------------------------------------------
(* C13 *)

\* the texts sent at the age step: whether the text is an integer numeral, and
\* its value if it is
AgeTable ==
    { [text |-> <<"1", "0">>, integer |-> TRUE, value |-> 10],
      [text |-> <<"2", "4", "a", "b", "c">>, integer |-> FALSE, value |-> 0],
      [text |-> <<"3", "5">>, integer |-> TRUE, value |-> 35],
      [text |-> <<"8", "0">>, integer |-> TRUE, value |-> 80],
      [text |-> <<"8", "1">>, integer |-> TRUE, value |-> 81],
      [text |-> <<"9">>, integer |-> TRUE, value |-> 9],
      [text |-> <<"a", "b", "c">>, integer |-> FALSE, value |-> 0],
      [text |-> <<"h", "e", "l", "l", "o">>, integer |-> FALSE, value |-> 0],
      [text |-> <<>>, integer |-> FALSE, value |-> 0] }

\* texts that are no integer, or an integer below MIN_AGE or above MAX_AGE
RejectedAges == {a \in AgeTable : ~a.integer \/ a.value < MIN_AGE \/ a.value > MAX_AGE}

Reprompted ==
    /\ session' = session
    /\ Sent(out', "age_reprompt")
    /\ StoreWrites(out') = <<>>
    /\ Dispatches(out') = <<>>

\* C13: at the age step an admitted text that is no integer, or an integer
\* below 10 or above 80, is answered by the re-prompt and leaves the stored
\* session as it was: still at the age step, no age recorded.
C13_BadAgeReprompts ==
    [][\A a \in RejectedAges :
          ( /\ variant = "v8"
            /\ session # Null
            /\ session.step = "q7_age"
            /\ HandleMessage(a.text)
            /\ Admitted(out') )
          => Reprompted
      ]_vars

----------------------------------------------------------------------------
(* C14 *)

\* the i-th call of the run o is the save of the completed session and it
\* succeeded
SavedCompleted(o, i) ==
    /\ o[i].op = "put"
    /\ o[i].st = "ok"
    /\ o[i].value.step = "completed"

\* C14: in every execution, with calls failing or the worker stopped, a delete
\* of the session comes after the successful save of step = completed; and
\* when that save was made and no delete succeeded after it (the execution
\* stopped between the two, or the delete failed) the stored session has
\* step = completed.
C14_CompletedSavedBeforeDelete ==
    /\ \A i \in DOMAIN out :
          out[i].op = "delete" => \E j \in 1..(i - 1) : SavedCompleted(out, j)
    /\ ( /\ \E j \in DOMAIN out : SavedCompleted(out, j)
         /\ ~\E i \in DOMAIN out : out[i].op = "delete" /\ out[i].st = "ok" )
       => (session # Null /\ session.step = "completed")

\* the worker was stopped between the save and the delete
C14_Witness ==
    /\ \E j \in DOMAIN out :
          /\ SavedCompleted(out, j)
          /\ j + 1 \in DOMAIN out
          /\ out[j + 1] = Crash
    /\ session # Null
    /\ session.step = "completed"

----------------------------------------------------------------------------
(* C15 *)

\* C15: whatever the interleaving of the reads, saves, posts and deletes of two
\* invocations for one chat, at most one verdict is dispatched for the session
\* that was created.
C15_OneVerdictUnderRace == verdicts <= 1

----------------------------------------------------------------------------
(* C16 *)

\* the result delivery of the run o did not succeed, every other call did
DeliveryFailed(o) ==
    \E i \in DOMAIN o :
        /\ o[i].op = "dispatch"
        /\ o[i].st # "ok"
        /\ \A j \in DOMAIN o \ {i} : o[j].st = "ok"

\* C16: when the result delivery fails, it is made once and not again, it is
\* not awaited, the verdict message is still sent, and the session is still
\* saved as completed and then deleted.
C16_DeliveryFailureDoesNotBlock ==
    DeliveryFailed(out)
    => /\ Cardinality({i \in DOMAIN out : out[i].op = "dispatch"}) = 1
       /\ \A i \in DOMAIN out : out[i].op = "dispatch" => "awaited" \notin DOMAIN out[i]
       /\ \E i \in DOMAIN out :
             /\ out[i].op = "send"
             /\ out[i].msg \in {"verdict_pass", "verdict_fail"}
             /\ out[i].st = "ok"
       /\ \E j \in DOMAIN out :
             /\ SavedCompleted(out, j)
             /\ \E k \in (j + 1)..Len(out) : out[k].op = "delete" /\ out[k].st = "ok"
       /\ session = Null

\* the delivery of a pass failed and the applicant was told the verdict
C16_Witness ==
    /\ DeliveryFailed(out)
    /\ session = Null
    /\ \E i \in DOMAIN out :
          out[i].op = "send" /\ out[i].msg = "verdict_pass" /\ out[i].st = "ok"

----------------------------------------------------------------------------
(* C17 *)

\* the catalog buttons of the session's current step
CurrentButtons ==
    {b \in ButtonTable(variant) :
        session # Null /\ b.idx = Rank(variant, session.step)}

\* age texts in range
InRangeAgeTexts == { <<"1", "0">>, <<"3", "5">> }

\* the calls of the run o that did not succeed are session-store writes,
\* session deletes and result deliveries
StoreOrDeliveryFaultsOnly(o) ==
    \A i \in DOMAIN o : o[i].st # "ok" => o[i].op \in {"put", "delete", "dispatch"}

\* the next question or a verdict message reached the user
Replied(o) ==
    \E i \in DOMAIN o :
        /\ o[i].op = "send"
        /\ o[i].st = "ok"
        /\ o[i].msg \in {"question", "verdict_pass", "verdict_fail"}

\* C17: an admitted press of a button of the current step of a session under
\* way, or an admitted in-range age at the age step, is answered by the next
\* question or the verdict message, also when a save of the session, its
\* delete or the result delivery fails.
C17_LiveInputIsAnswered ==
    [][/\ \A b \in CurrentButtons :
            ( /\ HandleCallbackQueryF(b.data)
              /\ Admitted(out')
              /\ StoreOrDeliveryFaultsOnly(out') )
            => Replied(out')
       /\ \A text \in InRangeAgeTexts :
            ( /\ variant = "v8"
              /\ session # Null
              /\ session.step = "q7_age"
              /\ HandleMessageF(text)
              /\ Admitted(out')
              /\ StoreOrDeliveryFaultsOnly(out') )
            => Replied(out')
      ]_vars

----------------------------------------------------------------------------
(* C18 *)

\* C18: a stored session at the i-th step holds an answer for every step
\* before i and for no other step.
C18_AnswersMatchStep ==
    (session # Null /\ session.step # "completed")
    => DOMAIN session.answers = KeysBefore(variant, Rank(variant, session.step))

----------------------------------------------------------------------------
(* C19 *)

\* C19: the stored applicant token is set by a /start with a valid token, to
\* that token, and by nothing else: a session that appears or whose token
\* differs from the one before comes from such a /start; every result
\* dispatched by an update carries the token of the session the update found.
C19_TokenSetOnceAtStart ==
    [][/\ ( /\ session' # Null
            /\ session = Null \/ session'.applicant_token # session.applicant_token )
          => \E c \in AcceptedStarts :
                HandleMessage(c.text) /\ session'.applicant_token = c.token
       /\ clock' = clock
          => \A i \in DOMAIN out' :
                out'[i].op = "dispatch"
                => /\ session # Null
                   /\ out'[i].payload.applicant_token = session.applicant_token
      ]_vars

\* the result of the session started with the second token was dispatched
\* with that token
C19_Witness ==
    /\ verdicts = 1
    /\ \E i \in DOMAIN out :
          /\ out[i].op = "dispatch"
          /\ out[i].payload.applicant_token = <<"t", "o", "k", "-", "2">>
          /\ "team_role" \in DOMAIN out[i].payload.answers

----------------------------------------------------------------------------
(* C20 *)

\* C20: an admitted /restart that finds a session under way stores a session
\* with the same applicant token, at the first step, with no answers, and
\* sends the first question; one that finds no session stores none and
\* replies that no active session was found.
C20_RestartKeepsToken ==
    [][(HandleMessage(s_restart) /\ Admitted(out'))
       => /\ (session # Null /\ session.step # "completed")
             => /\ session' = [applicant_token |-> session.applicant_token,
                               step |-> "q1_team_role",
                               answers |-> EmptyAnswers]
                /\ \E i \in DOMAIN out' : out'[i] = SendQuestion(0)
                /\ Dispatches(out') = <<>>
          /\ session = Null
             => /\ session' = Null
                /\ StoreWrites(out') = <<>>
                /\ Sent(out', "no_active_session")
                /\ Questions(out') = <<>>
      ]_vars

\* after the verdict and the delete of the session, a /restart found nothing
C20_Witness ==
    /\ verdicts = 1
    /\ session = Null
    /\ Sent(out, "no_active_session")

----------------------------------------------------------------------------
(* C21 *)

\* the texts that are an integer from MIN_AGE to MAX_AGE
InBoundAges == {a \in AgeTable : a.integer /\ a.value >= MIN_AGE /\ a.value <= MAX_AGE}

\* the session ended with a fail verdict that carries the age: one dispatch
\* with result fail, the verdict message, no further question, and the session
\* absent, or left as completed when its delete failed
FailedOnAge(age) ==
    /\ Len(Dispatches(out')) = 1
    /\ Dispatches(out')[1].payload.result = "fail"
    /\ Dispatches(out')[1].payload.reason = "fail_age"
    /\ Dispatches(out')[1].payload.answers["age"] = Number(age)
    /\ Sent(out', "verdict_fail")
    /\ Questions(out') = <<>>
    /\ IF DeleteFailed(out')
       THEN session' # Null /\ session'.step = "completed"
            /\ session'.answers["age"] = Number(age)
       ELSE session' = Null

\* the age was recorded and the session moved to the student-types step
AdvancedOnAge(age) ==
    /\ session' # Null
    /\ session'.step = "q8_student_types"
    /\ session'.answers = ("age" :> Number(age)) @@ session.answers
    /\ Dispatches(out') = <<>>
    /\ verdicts' = verdicts
    /\ out'[Len(out')] = SendQuestion(7)

\* C21: at the age step an admitted text that is an integer from 10 to 80 is
\* recorded under the key age and evaluated: at 35 or above the session ends
\* with a fail verdict, below 35 the session moves to the student-types step
\* and nothing is dispatched.
C21_InBoundAgeIsEvaluated ==
    [][\A a \in InBoundAges :
          ( /\ variant = "v8"
            /\ session # Null
            /\ session.step = "q7_age"
            /\ HandleMessage(a.text)
            /\ Admitted(out') )
          => IF a.value >= 35 THEN FailedOnAge(a.value) ELSE AdvancedOnAge(a.value)
      ]_vars

\* the age 35 was dispatched with a fail verdict and the session deleted
C21_Witness ==
    /\ variant = "v8"
    /\ session = Null
    /\ Len(Dispatches(out)) = 1
    /\ Dispatches(out)[1].payload.reason = "fail_age"
    /\ Dispatches(out)[1].payload.answers["age"] = Number(35)

----------------------------------------------------------------------------
(* C22 *)

\* C22: Env declares no maximum age and the handlers read none, so no maximum
\* age is configured in any state; then an admitted in-bounds age (10..80)
\* sent at the age step produces no fail verdict.
C22_NoAgeGateByDefault ==
    [][\A a \in InBoundAges :
          ( /\ variant = "v8"
            /\ session # Null
            /\ session.step = "q7_age"
            /\ HandleMessage(a.text)
            /\ Admitted(out') )
          => \A i \in DOMAIN out' :
                out'[i].op = "dispatch" => out'[i].payload.result # "fail"
      ]_vars

----------------------------------------------------------------------------
(* C23 *)

\* the message texts that are not a /start with a valid token
OtherTexts == Texts(variant) \ {c.text : c \in AcceptedStarts}

\* C23: a stored session whose step is completed (its delete failed) is
\* brought to an active step by nothing but a /start with a valid token.
\* Stated by contraposition: a step after which the session that was completed
\* is absent or at another step is the handling of no button press and of no
\* message text other than such a /start, /restart included.
C23_CompletedIsNotRevived ==
    [][( /\ session # Null
         /\ session.step = "completed"
         /\ ~(session' # Null /\ session'.step = "completed") )
       => /\ \A data \in Buttons(variant) : ~HandleCallbackQuery(data)
          /\ \A text \in OtherTexts : ~HandleMessage(text)
      ]_vars

----------------------------------------------------------------------------
(* C24 *)

\* the message texts that are not commands
FreeTexts == Texts(variant) \ CommandTexts

\* C24: a button press or a free-text message that finds a stored session
\* whose step is completed is dropped: the session is as before, nothing is
\* written or dispatched and, once past the rate limiter, no message is sent.
\* Stated by contraposition: a step from a completed session that is not a
\* drop is the handling of no button press and of no free text.
C24_EventOnCompletedIsSilent ==
    [][( /\ session # Null
         /\ session.step = "completed"
         /\ ~Dropped )
       => /\ \A data \in Buttons(variant) : ~HandleCallbackQuery(data)
          /\ \A text \in FreeTexts : ~HandleMessage(text)
      ]_vars

----------------------------------------------------------------------------
(* C25 *)

\* the i-th call of the run o is a delete of the session that did not succeed
DeleteRejected(o, i) == o[i].op = "delete" /\ o[i].st # "ok"

\* C25: when the delete of the session fails, the failure does not end the
\* handler with an exception: the verdict message and the save of step =
\* completed were made before it, no call of the execution threw, and the
\* stored session is left with step = completed; and a button press that
\* finds a session with step = completed dispatches no result (by
\* contraposition: a step from such a session that dispatches, or changes the
\* session, is the handling of no button press).
C25_DeleteFailureIsContained ==
    /\ [](\A i \in DOMAIN out :
            DeleteRejected(out, i)
            => /\ \E j \in 1..(i - 1) :
                     /\ out[j].op = "send"
                     /\ out[j].msg \in {"verdict_pass", "verdict_fail"}
               /\ \E j \in 1..(i - 1) : SavedCompleted(out, j)
               /\ \A j \in DOMAIN out : out[j].st # "threw"
               /\ session # Null
               /\ session.step = "completed")
    /\ [][( /\ session # Null
             /\ session.step = "completed"
             /\ ~(Dispatches(out') = <<>> /\ verdicts' = verdicts /\ session' = session) )
          => \A data \in FaultButtons(variant) : ~HandleCallbackQueryF(data)
         ]_vars

\* the delete failed after a fail verdict and the session is left as completed
C25_Witness ==
    /\ \E i \in DOMAIN out : DeleteRejected(out, i)
    /\ Sent(out, "verdict_fail")
    /\ session # Null
    /\ session.step = "completed"
    /\ verdicts = 1

----------------------------------------------------------------------------
(* C26 *)

\* C26: whatever the interleaving of the reads and saves of two invocations
\* that handle button presses for one chat, the step of the stored session
\* never moves to an earlier position of the ordering, completed being the
\* last: a save by an invocation that loaded an older state does not set it
\* back.
C26_StepForwardUnderRace ==
    [][(session # Null /\ session' # Null)
       => Rank(variant, session'.step) >= Rank(variant, session.step)
      ]_vars

----------------------------------------------------------------------------
(* C27 *)

\* C27: whatever the interleaving of the reads and writes of concurrent
\* checkRateLimit calls and the time passing between them, the value stored
\* under the rate-limit key holds at most RATE_LIMIT_MAX_ACTIONS timestamps,
\* each less than RATE_LIMIT_WINDOW_MS older than the time of the write, which
\* is the Date.now() of the writing call, stored as the newest entry.
C27_StoredWindowIsBounded ==
    rl # NoEntry
    => LET ts == rl.value.timestamps
       IN  /\ Len(ts) >= 1
           /\ Len(ts) <= RATE_LIMIT_MAX_ACTIONS
           /\ \A i \in DOMAIN ts : ts[Len(ts)] - ts[i] < RATE_LIMIT_WINDOW_MS

\* a full window was stored by a call that had read the key before another
\* call's write: more calls were admitted in the window than are stored
C27_Witness ==
    /\ rl # NoEntry
    /\ Len(rl.value.timestamps) = RATE_LIMIT_MAX_ACTIONS
    /\ clock < RATE_LIMIT_WINDOW_MS
    /\ Len(admitted) > RATE_LIMIT_MAX_ACTIONS

----------------------------------------------------------------------------
(* C28 *)

\* the rate-limit key holds a corrupted text that has not expired
Corrupted == rl # NoEntry /\ clock < rl.expiresAt /\ rl.value \in CorruptValues

\* the step made the calls ops, which are those of a handler that found no
\* rate-limit key, and wrote a window holding the one timestamp of the call
AsWithEmptyWindow(ops) ==
    /\ rl' = KVPut([timestamps |-> <<clock>>], RATE_LIMIT_TTL_SECONDS, clock)
    /\ \E delOk \in BOOLEAN :
          /\ out' = Observed(ops, delOk)
          /\ session' = SessionAfter(ops, session, delOk)

\* C28: when the text stored under the rate-limit key cannot be parsed, or
\* parses to JSON without a timestamps list, the update is handled as if the
\* key were absent: admitted, a window of one timestamp written, and the
\* handler's calls those it makes on an empty window.
C28_CorruptWindowReadsAsEmpty ==
    [][Corrupted
       => /\ \A text \in FaultTexts(variant) :
                HandleMessage(text)
                => AsWithEmptyWindow(IF variant = "v5"
                                     THEN handleMessage5(session, NoEntry, clock, text)
                                     ELSE handleMessage8(session, NoEntry, clock, text))
          /\ \A data \in FaultButtons(variant) :
                HandleCallbackQuery(data)
                => AsWithEmptyWindow(IF variant = "v5"
                                     THEN handleCallbackQuery5(session, NoEntry, clock, data, env)
                                     ELSE handleCallbackQuery8(session, NoEntry, clock, data, env))
      ]_vars

----------------------------------------------------------------------------
(* C29 *)

\* the rate limiter rejects an update handled now
Rejecting ==
    LET limit == CheckRateLimit(rl, clock) IN ~limit.allowed /\ ~limit.threw

\* C29: every update handled while the rate limiter rejects (a button press
\* or a message, /start and /restart included) leaves the session store as it
\* is: no session created, changed or deleted, no result dispatched, no
\* rate-limit write; the only call besides the acknowledgment of a button
\* press is one "too fast" message.
C29_RejectedTouchesNoSession ==
    [][(Rejecting /\ clock' = clock)
       => /\ session' = session
          /\ rl' = rl
          /\ verdicts' = verdicts
          /\ out' \in { <<Send("too_fast")>>, <<Ack, Send("too_fast")>> }
      ]_vars

\* a message was rejected while a session was under way
C29_Witness ==
    /\ out = <<Send("too_fast")>>
    /\ session # Null
    /\ session.step \notin {"q1_team_role", "completed"}

----------------------------------------------------------------------------
(* C30 *)

\* the first call is the acknowledgment and no other call is one
AckedFirstOnce(o) ==
    /\ Len(o) >= 1
    /\ o[1] = Ack
    /\ \A i \in 2..Len(o) : o[i].op # "ack"

\* the calls that the handling of a press of data makes in the current state
PressCalls(data) ==
    IF variant = "v5"
    THEN handleCallbackQuery5(session, rl, clock, data, env)
    ELSE handleCallbackQuery8(session, rl, clock, data, env)

\* C30: in every state, the handling of a button press, whatever becomes of
\* it (rejected by the rate limiter, stale, malformed, without a session, or
\* accepted), makes the acknowledgment as its first call, before the
\* rate-limit write, any session write and any message, and makes it once.
C30_PressAcknowledgedFirstOnce ==
    \A data \in Buttons(variant) : AckedFirstOnce(PressCalls(data))

\* a button press that the rate limiter rejected was acknowledged before the
\* notice
C30_Witness == out = <<Ack, Send("too_fast")>>

----------------------------------------------------------------------------
(* C31 *)

\* the calls that the handling of a message with this text makes in the
\* current state
MessageCalls(text) ==
    IF variant = "v5"
    THEN handleMessage5(session, rl, clock, text)
    ELSE handleMessage8(session, rl, clock, text)

\* a session is under way at a step that is answered with a button
AtButtonStep ==
    /\ session # Null
    /\ session.step # "completed"
    /\ session.step # "q7_age"

\* C31: in every state where the session is at a button step, the handling of
\* a message whose text is not a command, once past the rate limiter, writes
\* nothing to the session store, so that the stored step and answers stay as
\* they are, dispatches no result, and sends one message, the request to use
\* the buttons.
C31_FreeTextAtButtonStep ==
    AtButtonStep
    => \A text \in FreeTexts :
          LET ops == MessageCalls(text)
          IN  Admitted(ops)
              => /\ StoreWrites(ops) = <<>>
                 /\ SessionAfter(ops, session, TRUE) = session
                 /\ Dispatches(ops) = <<>>
                 /\ Sends(ops) = <<Send("use_buttons")>>

\* at the third step, a free text was answered by the request to use the
\* buttons
C31_Witness ==
    /\ session # Null
    /\ session.step = "q3_start_date"
    /\ Len(out) = 2
    /\ out[1].op = "rlput"
    /\ out[2] = Send("use_buttons")

----------------------------------------------------------------------------
(* C32 *)

\* in the run o the result was dispatched and a later call, the verdict
\* message or the save of the completed session, did not succeed; the worker
\* was not stopped
FailedAfterDispatch(o) ==
    /\ \A k \in DOMAIN o : o[k] # Crash
    /\ \E i \in DOMAIN o :
          /\ o[i].op = "dispatch"
          /\ \E j \in (i + 1)..Len(o) : o[j].op \in {"send", "put"} /\ o[j].st # "ok"

\* C32: updates being handled one at a time, when a handler has dispatched the
\* one result of the session and its verdict message or its save of the
\* completed session then failed, the next update handled (the same button
\* pressed again, for one) does not bring the results dispatched for the
\* session above one.
C32_OneVerdictDespiteFailure ==
    [][(verdicts = 1 /\ FailedAfterDispatch(out)) => verdicts' <= 1]_vars

----------------------------------------------------------------------------
(* C33 *)

\* the answer a stored under the key of the i-th step is acceptable in a pass:
\* the age an integer from MIN_AGE to below the cut-off, any other answer a
\* canonical value of its step that the table does not fail
PassableAnswer(i, a) ==
    IF AnswerKeys(variant)[i] = "age"
    THEN a.t = "number" /\ a.v >= MIN_AGE /\ a.v < MAX_AGE_THRESHOLD
    ELSE /\ a.t = "string"
         /\ a.v \in CanonicalOf(variant, StepOrder(variant)[i])
         /\ ~TableFails(AnswerKeys(variant)[i], a.v, Threshold(env))

\* C33: every pass result dispatched, in both workers, carries an answer for
\* every step, each a canonical value of the catalog for its step that the
\* step's fail condition does not reject; the age is an integer from 10 to 34.
C33_PassCarriesCanonicalAnswers ==
    \A k \in DOMAIN out :
        (out[k].op = "dispatch" /\ out[k].payload.result = "pass")
        => \A i \in DOMAIN StepOrder(variant) :
              /\ AnswerKeys(variant)[i] \in DOMAIN out[k].payload.answers
              /\ PassableAnswer(i, out[k].payload.answers[AnswerKeys(variant)[i]])

----------------------------------------------------------------------------
(* C34 *)

\* number of steps of the deployed worker
NumSteps == Len(StepOrder(variant))

\* C34: a user who keeps giving answers that the rate limiter admits brings
\* every session under way to its verdict; each such answer either gives the
\* verdict, with no further question, or moves the session one step forward
\* and renders the one question of that step, so that the verdict comes after
\* at most as many answers as there are steps (5 or 8) and the questions
\* rendered for the session, the first at /start, are at most as many.
C34_SessionTerminates ==
    /\ (session # Null /\ session.step # "completed") ~> (verdicts = 1)
    /\ [][(LiveAnswer /\ Admitted(out'))
          => \/ /\ verdicts = 0
                /\ verdicts' = 1
                /\ Questions(out') = <<>>
                /\ Rank(variant, session.step) <= NumSteps
             \/ /\ verdicts' = 0
                /\ session' # Null
                /\ Rank(variant, session'.step) = Rank(variant, session.step) + 1
                /\ Rank(variant, session'.step) <= NumSteps
                /\ Questions(out') = <<SendQuestion(Rank(variant, session.step))>>
         ]_vars
    /\ [][LiveStart => Questions(out') \in { <<>>, <<SendQuestion(0)>> }]_vars

\* the 8-question worker gave a pass after the user had to wait once
C34_Witness ==
    /\ variant = "v8"
    /\ clock > 0
    /\ verdicts = 1
    /\ \E i \in DOMAIN out : out[i].op = "dispatch" /\ out[i].payload.result = "pass"

====
